---- MODULE Spec2Model ----
(***************************************************************************)
(* A model of frankencommander's panel/navigation state machine and its    *)
(* modal dialogs (src/src/pane.rs, vfs.rs, fs_ops.rs, app.rs).             *)
(*                                                                         *)
(* Strings are sequences of one-character strings, a path is a sequence of *)
(* components (an absolute path starts with the component "/"), and an     *)
(* Option is a sequence of length at most one.                             *)
(***************************************************************************)
EXTENDS Integers, Sequences, FiniteSets, TLC

----------------------------------------------------------------------------
(* Option<T> *)

NoneV == <<>>
Some(v) == <<v>>
IsSome(o) == Len(o) > 0
IsNone(o) == Len(o) = 0
UnwrapOr(o, d) == IF Len(o) > 0 THEN o[1] ELSE d

Min(a, b) == IF a < b THEN a ELSE b
Max(a, b) == IF a > b THEN a ELSE b

\* usize::saturating_sub
SatSub(a, b) == IF a > b THEN a - b ELSE 0

\* a local binding: the body F with its name bound to v
Bind(v, F(_)) == F(v)

----------------------------------------------------------------------------
(* Strings *)

CharCode(c) ==
    CASE c = " " -> 32 [] c = "." -> 46 [] c = "/" -> 47
      [] c = "0" -> 48 [] c = "1" -> 49 [] c = "2" -> 50 [] c = "3" -> 51
      [] c = "4" -> 52 [] c = "5" -> 53 [] c = "6" -> 54 [] c = "7" -> 55
      [] c = "8" -> 56 [] c = "9" -> 57
      [] c = "I" -> 73 [] c = "P" -> 80 [] c = "Y" -> 89 [] c = "Z" -> 90
      [] c = "a" -> 97 [] c = "b" -> 98 [] c = "d" -> 100 [] c = "e" -> 101
      [] c = "f" -> 102 [] c = "g" -> 103 [] c = "h" -> 104 [] c = "i" -> 105
      [] c = "m" -> 109 [] c = "n" -> 110 [] c = "o" -> 111 [] c = "p" -> 112
      [] c = "r" -> 114 [] c = "t" -> 116 [] c = "x" -> 120 [] c = "y" -> 121
      [] c = "z" -> 122

\* char::to_lowercase on the alphabet of the model
LowerChar(c) ==
    CASE c = "I" -> "i" [] c = "P" -> "p" [] c = "Y" -> "y" [] c = "Z" -> "z"
      [] OTHER -> c

ToLower(s) == [i \in 1..Len(s) |-> LowerChar(s[i])]

\* Ord for str: -1 Less, 0 Equal, 1 Greater (bytewise lexicographic)
RECURSIVE StrCmp(_, _)
StrCmp(a, b) ==
    IF a = <<>> /\ b = <<>> THEN 0
    ELSE IF a = <<>> THEN -1
    ELSE IF b = <<>> THEN 1
    ELSE IF CharCode(a[1]) < CharCode(b[1]) THEN -1
    ELSE IF CharCode(a[1]) > CharCode(b[1]) THEN 1
    ELSE StrCmp(Tail(a), Tail(b))

StartsWith(s, p) == Len(p) <= Len(s) /\ SubSeq(s, 1, Len(p)) = p
EndsWith(s, p) == Len(p) <= Len(s) /\ SubSeq(s, Len(s) - Len(p) + 1, Len(s)) = p
Contains(s, q) == \E i \in 0..(Len(s) - Len(q)) : SubSeq(s, i + 1, i + Len(q)) = q

\* str::split('/'): the pieces between separators, empty pieces kept
RECURSIVE SplitAcc(_, _, _)
SplitAcc(s, cur, acc) ==
    IF s = <<>> THEN Append(acc, cur)
    ELSE IF s[1] = "/" THEN SplitAcc(Tail(s), <<>>, Append(acc, cur))
    ELSE SplitAcc(Tail(s), Append(cur, s[1]), acc)
SplitSlash(s) == SplitAcc(s, <<>>, <<>>)

\* str::trim_end_matches('/')
RECURSIVE TrimEndSlash(_)
TrimEndSlash(s) ==
    IF s # <<>> /\ s[Len(s)] = "/" THEN TrimEndSlash(SubSeq(s, 1, Len(s) - 1)) ELSE s

\* str::trim on spaces
RECURSIVE TrimStartSp(_)
TrimStartSp(s) == IF s # <<>> /\ s[1] = " " THEN TrimStartSp(Tail(s)) ELSE s
RECURSIVE TrimEndSp(_)
TrimEndSp(s) ==
    IF s # <<>> /\ s[Len(s)] = " " THEN TrimEndSp(SubSeq(s, 1, Len(s) - 1)) ELSE s
Trim(s) == TrimEndSp(TrimStartSp(s))

DotZip == <<".", "z", "i", "p">>

----------------------------------------------------------------------------
(* Paths: PathBuf as a sequence of components; "/" first when absolute *)

RootC == <<"/">>
Root == <<RootC>>

IsAbs(p) == p # <<>> /\ p[1] = RootC

\* Path::parent
PathParent(p) ==
    IF p = <<>> \/ p = Root THEN NoneV ELSE Some(SubSeq(p, 1, Len(p) - 1))

\* Path::file_name().unwrap_or_default()
FileName(p) == IF p = <<>> \/ p = Root THEN <<>> ELSE p[Len(p)]

\* Path::join with a single relative component (an empty one changes nothing)
Join(p, name) == IF name = <<>> THEN p ELSE Append(p, name)

\* Path::new(&str): components between slashes, empty ones dropped
RECURSIVE DropEmpty(_)
DropEmpty(parts) ==
    IF parts = <<>> THEN <<>>
    ELSE IF parts[1] = <<>> THEN DropEmpty(Tail(parts))
    ELSE <<parts[1]>> \o DropEmpty(Tail(parts))
PathFromStr(s) ==
    IF s = <<>> THEN <<>>
    ELSE IF s[1] = "/" THEN Root \o DropEmpty(SplitSlash(s))
    ELSE DropEmpty(SplitSlash(s))

\* Path::to_string_lossy / display
RECURSIVE JoinSlash(_)
JoinSlash(comps) ==
    IF comps = <<>> THEN <<>>
    ELSE IF Len(comps) = 1 THEN comps[1]
    ELSE comps[1] \o <<"/">> \o JoinSlash(Tail(comps))
PathToStr(p) ==
    IF IsAbs(p) THEN <<"/">> \o JoinSlash(Tail(p)) ELSE JoinSlash(p)

IsPrefixPath(a, p) == Len(a) <= Len(p) /\ SubSeq(p, 1, Len(a)) = a

----------------------------------------------------------------------------
(* The filesystem: a function from the existing paths to their nodes *)

N_a == <<"a">>
N_b == <<"b">>
N_f == <<"f">>
N_hid == <<".", "h">>
N_xzip == <<"x", ".", "z", "i", "p">>
N_YZIP == <<"Y", ".", "Z", "I", "P">>

\* perm holds the permission bits: directories are made 0o755, files 0o644
DirNode(t) == [kind |-> "dir", size |-> 0, mtime |-> t, zip |-> NoneV, perm |-> 493]
FileNode(sz, t) == [kind |-> "file", size |-> sz, mtime |-> t, zip |-> NoneV, perm |-> 420]
ZipNode(sz, t, id) ==
    [kind |-> "file", size |-> sz, mtime |-> t, zip |-> Some(id), perm |-> 420]

\* The members of the archives, in archive order (name, uncompressed size):
\* "A" with a member for its directory, "B" without one and with a hidden
\* file, "C" with an empty segment in a member's name, "D" with a file named
\* as a directory
Archive(id) ==
    CASE id = "B" -> << [name |-> <<"d", "/", "r">>, size |-> 2],
                        [name |-> <<".", "h">>, size |-> 1] >>
      [] id = "C" -> << [name |-> <<"d", "/", "/", "r">>, size |-> 2],
                        [name |-> <<"t">>, size |-> 1] >>
      [] id = "D" -> << [name |-> <<"d">>, size |-> 1],
                        [name |-> <<"d", "/", "r">>, size |-> 2] >>
      [] OTHER -> << [name |-> <<"d", "/">>, size |-> 0],
                     [name |-> <<"d", "/", "r">>, size |-> 2],
                     [name |-> <<"t">>, size |-> 1] >>
ZipIds == {"A", "B", "C", "D"}

\* The tree the application is started in; the process's working directory is /a
InitFS ==
    (Root :> DirNode(1))
    @@ (Join(Root, N_a) :> DirNode(1))
    @@ (Join(Root, N_f) :> FileNode(2, 1))
    @@ (Join(Root, N_xzip) :> ZipNode(3, 1, "A"))
    @@ (Join(Join(Root, N_a), N_b) :> DirNode(1))
    @@ (Join(Join(Root, N_a), N_f) :> FileNode(1, 2))
    @@ (Join(Join(Root, N_a), N_hid) :> FileNode(1, 1))
    @@ (Join(Join(Root, N_a), N_YZIP) :> ZipNode(3, 1, "A"))
StartDir == Join(Root, N_a)

Exists(F, p) == p \in DOMAIN F
IsDir(F, p) == p \in DOMAIN F /\ F[p].kind = "dir"

Children(F, dir) == {p \in DOMAIN F : Len(p) = Len(dir) + 1 /\ IsPrefixPath(dir, p)}
Descendants(F, dir) == {p \in DOMAIN F : Len(p) > Len(dir) /\ IsPrefixPath(dir, p)}

\* fs::read_dir yields the children in an order the system chooses; the model
\* fixes it to the bytewise order of the file names
RECURSIVE EnumSeq(_)
EnumSeq(S) ==
    IF S = {} THEN <<>>
    ELSE Bind(CHOOSE x \in S : \A y \in S : StrCmp(FileName(x), FileName(y)) <= 0,
              LAMBDA m : <<m>> \o EnumSeq(S \ {m}))

Ok(v) == [ok |-> TRUE, val |-> v]
Err == [ok |-> FALSE]

----------------------------------------------------------------------------
(* fs_ops.rs: listing and sorting *)

cmp_name(a, b) == StrCmp(ToLower(a.name), ToLower(b.name))

\* name.rsplit('.').next(): what follows the last '.', the whole name without one
RECURSIVE LastDotPiece(_)
LastDotPiece(s) ==
    IF \E i \in 1..Len(s) : s[i] = "."
    THEN LastDotPiece(SubSeq(s, (CHOOSE i \in 1..Len(s) : s[i] = ".") + 1, Len(s)))
    ELSE s
cmp_ext(a, b) == StrCmp(ToLower(LastDotPiece(a.name)), ToLower(LastDotPiece(b.name)))

IntCmp(x, y) == IF x < y THEN -1 ELSE IF x > y THEN 1 ELSE 0
cmp_time(a, b) == IntCmp(UnwrapOr(a.modified, 0), UnwrapOr(b.modified, 0))
cmp_size(a, b) == IntCmp(a.size, b.size)
ThenWith(c, d) == IF c # 0 THEN c ELSE d

ModeCmp(a, b, sort_mode) ==
    CASE sort_mode = "NameAsc" -> cmp_name(a, b)
      [] sort_mode = "NameDesc" -> cmp_name(b, a)
      [] sort_mode = "ExtAsc" -> ThenWith(cmp_ext(a, b), cmp_name(a, b))
      [] sort_mode = "ExtDesc" -> ThenWith(cmp_ext(b, a), cmp_name(a, b))
      [] sort_mode = "TimeAsc" -> ThenWith(cmp_time(a, b), cmp_name(a, b))
      [] sort_mode = "TimeDesc" -> ThenWith(cmp_time(b, a), cmp_name(a, b))
      [] sort_mode = "SizeAsc" -> ThenWith(cmp_size(a, b), cmp_name(a, b))
      [] sort_mode = "SizeDesc" -> ThenWith(cmp_size(b, a), cmp_name(a, b))
      [] sort_mode = "Unsorted" -> 0
EntryCmpSortedOnly(a, b, sort_mode, dirs_first) ==
    IF dirs_first /\ sort_mode # "Unsorted" /\ a.is_dir # b.is_dir
    THEN (IF a.is_dir THEN -1 ELSE 1)
    ELSE ModeCmp(a, b, sort_mode)
EntryCmpUnsortedByName(a, b, sort_mode, dirs_first) ==
    IF dirs_first /\ a.is_dir # b.is_dir
    THEN (IF a.is_dir THEN -1 ELSE 1)
    ELSE ModeCmp(a, b, IF sort_mode = "Unsorted" THEN "NameAsc" ELSE sort_mode)

\* the closure handed to sort_by in read_entries
EntryCmp(a, b, sort_mode, dirs_first) ==
    IF dirs_first /\ a.is_dir # b.is_dir
    THEN (IF a.is_dir THEN -1 ELSE 1)
    ELSE CASE sort_mode = "NameAsc" -> cmp_name(a, b)
           [] sort_mode = "NameDesc" -> cmp_name(b, a)
           [] sort_mode = "ExtAsc" -> ThenWith(cmp_ext(a, b), cmp_name(a, b))
           [] sort_mode = "ExtDesc" -> ThenWith(cmp_ext(b, a), cmp_name(a, b))
           [] sort_mode = "TimeAsc" -> ThenWith(cmp_time(a, b), cmp_name(a, b))
           [] sort_mode = "TimeDesc" -> ThenWith(cmp_time(b, a), cmp_name(a, b))
           [] sort_mode = "SizeAsc" -> ThenWith(cmp_size(a, b), cmp_name(a, b))
           [] sort_mode = "SizeDesc" -> ThenWith(cmp_size(b, a), cmp_name(a, b))
           [] sort_mode = "Unsorted" -> 0

SortModes ==
    {"NameAsc", "NameDesc", "ExtAsc", "ExtDesc", "TimeAsc", "TimeDesc", "SizeAsc",
     "SizeDesc", "Unsorted"}

toggle_name_stuck(mode) == "NameAsc"
toggle_name_sort(mode) ==
    CASE mode = "NameAsc" -> "NameDesc"
      [] mode = "NameDesc" -> "NameAsc"
      [] OTHER -> "NameAsc"

toggle_ext_sort(mode) ==
    CASE mode = "ExtAsc" -> "ExtDesc"
      [] mode = "ExtDesc" -> "ExtAsc"
      [] OTHER -> "ExtAsc"

toggle_time_sort(mode) ==
    CASE mode = "TimeAsc" -> "TimeDesc"
      [] mode = "TimeDesc" -> "TimeAsc"
      [] OTHER -> "TimeDesc"

toggle_size_inverting(mode) ==
    CASE mode \in {"NameAsc", "ExtAsc", "TimeAsc", "SizeDesc"} -> "SizeAsc"
      [] OTHER -> "SizeDesc"
toggle_size_sort(mode) ==
    CASE mode = "SizeAsc" -> "SizeDesc"
      [] mode = "SizeDesc" -> "SizeAsc"
      [] OTHER -> "SizeDesc"

\* the step of the sort order in the panel options dialog
next_sort_mode(mode) ==
    CASE mode = "NameAsc" -> "NameDesc"
      [] mode = "NameDesc" -> "ExtAsc"
      [] mode = "ExtAsc" -> "ExtDesc"
      [] mode = "ExtDesc" -> "TimeAsc"
      [] mode = "TimeAsc" -> "TimeDesc"
      [] mode = "TimeDesc" -> "SizeAsc"
      [] mode = "SizeAsc" -> "SizeDesc"
      [] mode = "SizeDesc" -> "Unsorted"
      [] OTHER -> "NameAsc"

\* the largest index of a set of indices, 0 when there is none
LastOf(stay) == IF stay = {} THEN 0 ELSE CHOOSE i \in stay : \A j \in stay : j <= i

InsertAt(s, pos, e) == SubSeq(s, 1, pos - 1) \o <<e>> \o SubSeq(s, pos, Len(s))

\* slice::sort_by (stable): each element moves left past those it is Less than
RECURSIVE SortEntries(_, _, _, _)
SortEntries(done, rest, sort_mode, dirs_first) ==
    IF rest = <<>> THEN done
    ELSE Bind({i \in 1..Len(done) : EntryCmp(rest[1], done[i], sort_mode, dirs_first) >= 0},
              LAMBDA stay :
                  SortEntries(InsertAt(done, LastOf(stay) + 1, rest[1]), Tail(rest),
                              sort_mode, dirs_first))

DirEntry(F, p) ==
    [name |-> FileName(p), path |-> p, is_dir |-> F[p].kind = "dir",
     size |-> F[p].size, modified |-> Some(F[p].mtime),
     is_system |-> StartsWith(FileName(p), <<".">>)]

\* read_entries; io is whether the system calls of this listing succeed
read_entries(F, dir, sort_mode, dirs_first, show_hidden, io) ==
    IF ~io \/ ~IsDir(F, dir) THEN Err
    ELSE Bind(SelectSeq(EnumSeq(Children(F, dir)),
                        LAMBDA p : show_hidden \/ ~StartsWith(FileName(p), <<".">>)),
              LAMBDA kept :
                  Ok(SortEntries(<<>>, [i \in 1..Len(kept) |-> DirEntry(F, kept[i])],
                                 sort_mode, dirs_first)))

\* read_panelized: the paths that still exist, in the order of the list; never fails
read_panelized(F, paths) ==
    Bind(SelectSeq(paths, LAMBDA p : Exists(F, p)),
         LAMBDA kept :
             Ok([i \in 1..Len(kept) |->
                  [name |-> FileName(kept[i]), path |-> kept[i],
                   is_dir |-> F[kept[i]].kind = "dir", size |-> F[kept[i]].size,
                   modified |-> Some(F[kept[i]].mtime),
                   is_system |-> StartsWith(FileName(kept[i]), <<".">>)]]))

----------------------------------------------------------------------------
(* vfs.rs *)

ZipEntryCmp(a, b) ==
    IF a.is_dir /\ ~b.is_dir THEN -1
    ELSE IF ~a.is_dir /\ b.is_dir THEN 1
    ELSE StrCmp(ToLower(a.name), ToLower(b.name))

RECURSIVE SortZip(_, _)
SortZip(done, rest) ==
    IF rest = <<>> THEN done
    ELSE Bind({i \in 1..Len(done) : ZipEntryCmp(rest[1], done[i]) >= 0},
              LAMBDA stay : SortZip(InsertAt(done, LastOf(stay) + 1, rest[1]), Tail(rest)))

\* the loop over the archive's members in read_zip_entries
RECURSIVE ZipScan(_, _, _, _, _)

\* a directory or file entry of an archive listing
ZipEntry(first, is_dir, size) ==
    [name |-> first, path |-> PathFromStr(first), is_dir |-> is_dir, size |-> size,
     modified |-> NoneV, is_system |-> StartsWith(first, <<".">>)]

\* the body of the loop for member m; rest is its name after the prefix and
\* first the piece of rest before the first '/'
ZipPiece(m, more, prefix, show_hidden, seen, acc, rest, nested, first) ==
    IF nested
    THEN IF ~show_hidden /\ StartsWith(first, <<".">>)
         THEN ZipScan(more, prefix, show_hidden, seen, acc)
         ELSE IF first \in seen
         THEN ZipScan(more, prefix, show_hidden, seen, acc)
         ELSE ZipScan(more, prefix, show_hidden, seen \cup {first},
                      Append(acc, ZipEntry(first, TRUE, 0)))
    ELSE IF first = <<>> \/ (~show_hidden /\ StartsWith(first, <<".">>))
    THEN ZipScan(more, prefix, show_hidden, seen, acc)
    ELSE ZipScan(more, prefix, show_hidden, seen,
                 Append(acc, ZipEntry(first, EndsWith(m.name, <<"/">>) \/ EndsWith(rest, <<"/">>),
                                      m.size)))

ZipMember(m, more, prefix, show_hidden, seen, acc, rest) ==
    IF ~StartsWith(m.name, prefix) \/ rest = <<>>
    THEN ZipScan(more, prefix, show_hidden, seen, acc)
    ELSE Bind(SplitSlash(rest),
              LAMBDA parts : ZipPiece(m, more, prefix, show_hidden, seen, acc, rest,
                                      Len(parts) > 1, parts[1]))

ZipScan(members, prefix, show_hidden, seen, acc) ==
    IF members = <<>> THEN acc
    ELSE ZipMember(members[1], Tail(members), prefix, show_hidden, seen, acc,
                   SubSeq(members[1].name, Len(prefix) + 1, Len(members[1].name)))

\* read_zip_entries: fails when the file cannot be opened or is no archive
read_zip_entries(F, vfs, show_hidden, io) ==
    IF ~io \/ ~Exists(F, vfs.zip_path) THEN Err
    ELSE IF F[vfs.zip_path].kind # "file" \/ IsNone(F[vfs.zip_path].zip) THEN Err
    ELSE Ok(SortZip(<<>>, ZipScan(Archive(F[vfs.zip_path].zip[1]), vfs.prefix,
                                  show_hidden, {}, <<>>)))

zip_parent_prefix(prefix) ==
    Bind(PathParent(PathFromStr(TrimEndSlash(prefix))),
         LAMBDA parent :
             IF IsNone(parent) THEN NoneV
             ELSE Bind(PathToStr(parent[1]),
                       LAMBDA str : IF str = <<>> THEN Some(<<>>) ELSE Some(str \o <<"/">>)))

zip_child_prefix(prefix, entry_path) == prefix \o PathToStr(entry_path) \o <<"/">>

----------------------------------------------------------------------------
(* fs_ops.rs: find, tree and drive lists; menu.rs *)

Reverse(q) == [i \in 1..Len(q) |-> q[Len(q) + 1 - i]]

\* the walk of find_matches: pop a directory, collect its matching entries in
\* enumeration order, push its subdirectories
RECURSIVE FindWalk(_, _, _, _, _)
FindWalk(F, stack, query, show_hidden, results) ==
    IF stack = <<>> THEN results
    ELSE Bind(SelectSeq(IF IsDir(F, stack[Len(stack)])
                        THEN EnumSeq(Children(F, stack[Len(stack)])) ELSE <<>>,
                        LAMBDA p : show_hidden \/ ~StartsWith(FileName(p), <<".">>)),
              LAMBDA seen :
                  FindWalk(F, SubSeq(stack, 1, Len(stack) - 1)
                                \o SelectSeq(seen, LAMBDA p : IsDir(F, p)),
                           query, show_hidden,
                           results \o SelectSeq(seen,
                               LAMBDA p : Contains(ToLower(FileName(p)), query))))

find_matches(F, base, query, show_hidden) ==
    FindWalk(F, <<base>>, ToLower(query), show_hidden, <<>>)

\* the walk of build_tree: pre-order, children sorted, down to max_depth
\* what the walk pushes for the item top: its subdirectories, last first
TreePushed(F, top, max_depth, show_hidden) ==
    IF top.depth >= max_depth \/ ~IsDir(F, top.path) THEN <<>>
    ELSE Bind(SelectSeq(EnumSeq(Children(F, top.path)),
                        LAMBDA p : IsDir(F, p) /\ (show_hidden \/ ~StartsWith(FileName(p), <<".">>))),
              LAMBDA children :
                  [i \in 1..Len(children) |->
                      [path |-> Reverse(children)[i], depth |-> top.depth + 1]])

RECURSIVE TreeWalk(_, _, _, _, _)
TreeWalk(F, stack, max_depth, show_hidden, items) ==
    IF stack = <<>> THEN items
    ELSE TreeWalk(F, SubSeq(stack, 1, Len(stack) - 1)
                       \o TreePushed(F, stack[Len(stack)], max_depth, show_hidden),
                  max_depth, show_hidden, Append(items, stack[Len(stack)]))

build_tree(F, base, max_depth, show_hidden) ==
    TreeWalk(F, <<[path |-> base, depth |-> 0]>>, max_depth, show_hidden, <<>>)

\* list_drive_roots: "/", "/home", "/tmp" and the directories under /mnt and
\* /media, sorted
N_home == <<"h", "o", "m", "e">>
N_tmp == <<"t", "m", "p">>
N_mnt == <<"m", "n", "t">>
N_media == <<"m", "e", "d", "i", "a">>
MountDirs(F, base) ==
    IF IsDir(F, base) THEN SelectSeq(EnumSeq(Children(F, base)), LAMBDA p : IsDir(F, p))
    ELSE <<>>
list_drive_roots(F) ==
    <<Root, Join(Root, N_home)>> \o MountDirs(F, Join(Root, N_media))
        \o MountDirs(F, Join(Root, N_mnt)) \o <<Join(Root, N_tmp)>>

\* menu.rs
MenuCount == 6
menu_items(menu_idx) ==
    CASE menu_idx = 0 -> <<"View", "Edit", "Copy", "Move", "Quit">>
      [] menu_idx = 1 -> <<"Tree", "Find">>
      [] menu_idx = 2 -> <<"Config", "PanelOptions">>
      [] menu_idx = 3 -> <<"LeftBrief", "LeftFull", "LeftInfo", "LeftTree", "LeftQuickView",
                           "LeftOnOff", "LeftSortName", "LeftSortExt", "LeftSortTime",
                           "LeftSortSize", "LeftUnsorted", "LeftReread", "LeftFilter",
                           "LeftDrive">>
      [] menu_idx = 4 -> <<"RightBrief", "RightFull", "RightInfo", "RightTree",
                           "RightQuickView", "RightOnOff", "RightSortName", "RightSortExt",
                           "RightSortTime", "RightSortSize", "RightUnsorted", "RightReread",
                           "RightFilter", "RightDrive">>
      [] OTHER -> <<"Help", "About">>

----------------------------------------------------------------------------
(* fs_ops.rs: copy, move and delete, with the std::fs calls they make.
   Every operation yields [ok, fs]: a failed one keeps what it did before the
   failing call *)

MaxDepth == 4       \* longest path the system accepts, in components
Now == 3            \* the modification time given to files written now

FsOk(F) == [ok |-> TRUE, fs |-> F]
FsErr(F) == [ok |-> FALSE, fs |-> F]

\* fs::remove_dir_all / fs::remove_file
RemoveTree(F, p) == [q \in DOMAIN F \ ({p} \cup Descendants(F, p)) |-> F[q]]

\* remove_path
remove_path(F, path) == IF Exists(F, path) THEN FsOk(RemoveTree(F, path)) ELSE FsErr(F)

\* fs::create_dir_all
RECURSIVE create_dir_all(_, _)
create_dir_all(F, p) ==
    IF p = <<>> \/ IsDir(F, p) THEN FsOk(F)
    ELSE IF Exists(F, p) \/ Len(p) > MaxDepth THEN FsErr(F)
    ELSE Bind(create_dir_all(F, PathParent(p)[1]),
              LAMBDA r : IF r.ok THEN FsOk((p :> DirNode(Now)) @@ r.fs) ELSE r)

\* fs::copy: a file onto a path that is not a directory and whose parent is one
fs_copy(F, src, dest) ==
    IF ~Exists(F, src) \/ IsDir(F, src) \/ IsDir(F, dest) THEN FsErr(F)
    ELSE IF ~Exists(F, dest)
            /\ (Len(dest) > MaxDepth \/ IsNone(PathParent(dest))
                  \/ ~IsDir(F, PathParent(dest)[1]))
    THEN FsErr(F)
    ELSE FsOk((dest :> [F[src] EXCEPT !.mtime = Now,
                                      !.size = IF src = dest THEN 0 ELSE @]) @@ F)

\* copy_dir_recursive, and its loop over the entries read_dir gave
RECURSIVE copy_dir_recursive(_, _, _)
RECURSIVE CopyKids(_, _, _)
copy_dir_recursive(F, src, dest) ==
    Bind(IF Exists(F, dest) THEN FsOk(F) ELSE create_dir_all(F, dest),
         LAMBDA made :
             IF ~made.ok THEN made
             ELSE IF ~IsDir(made.fs, src) THEN FsErr(made.fs)
             ELSE CopyKids(made.fs, EnumSeq(Children(made.fs, src)), dest))
CopyKids(F, kids, dest) ==
    IF kids = <<>> THEN FsOk(F)
    ELSE Bind(IF IsDir(F, kids[1])
              THEN copy_dir_recursive(F, kids[1], Join(dest, FileName(kids[1])))
              ELSE fs_copy(F, kids[1], Join(dest, FileName(kids[1]))),
              LAMBDA r : IF r.ok THEN CopyKids(r.fs, Tail(kids), dest) ELSE r)

\* copy_entry
copy_entry(F, src, dest) ==
    IF IsDir(F, src) THEN copy_dir_recursive(F, src, dest)
    ELSE Bind(IF IsSome(PathParent(dest)) THEN create_dir_all(F, PathParent(dest)[1])
              ELSE FsOk(F),
              LAMBDA made : IF made.ok THEN fs_copy(made.fs, src, dest) ELSE made)

\* the tree after a rename: the paths in moved go under dest, those in kept stay
Renamed(F, src, dest, moved, kept) ==
    FsOk([q \in kept \cup {dest \o SubSeq(m, Len(src) + 1, Len(m)) : m \in moved} |->
            IF q \in kept THEN F[q]
            ELSE F[CHOOSE m \in moved : dest \o SubSeq(m, Len(src) + 1, Len(m)) = q]])

\* fs::rename within one filesystem
fs_rename(F, src, dest) ==
    IF ~Exists(F, src) THEN FsErr(F)
    ELSE IF src = dest THEN FsOk(F)
    ELSE IF IsNone(PathParent(dest)) \/ ~IsDir(F, PathParent(dest)[1]) THEN FsErr(F)
    ELSE IF IsDir(F, src)
            /\ (IsPrefixPath(src, dest)
                  \/ (Exists(F, dest) /\ ~(IsDir(F, dest) /\ Children(F, dest) = {})))
    THEN FsErr(F)
    ELSE IF ~IsDir(F, src) /\ IsDir(F, dest) THEN FsErr(F)
    ELSE Renamed(F, src, dest, {src} \cup Descendants(F, src),
                 DOMAIN F \ ({src, dest} \cup Descendants(F, src) \cup Descendants(F, dest)))

\* move_entry
move_entry(F, src, dest) ==
    Bind(fs_rename(F, src, dest),
         LAMBDA renamed :
             IF renamed.ok THEN renamed
             ELSE Bind(copy_entry(F, src, dest),
                       LAMBDA copied :
                           IF copied.ok THEN remove_path(copied.fs, src) ELSE copied))

\* every source written onto dest itself
TargetOfDest(src, dest, dest_is_dir) == dest

\* the target of one source: inside dest when dest is a directory or there are
\* several sources, else dest itself
TargetOf(src, dest, dest_is_dir) ==
    IF dest_is_dir THEN Join(dest, FileName(src)) ELSE dest

\* find_conflicts that never reports an existing target
find_conflicts_none(F, sources, dest) == NoneV

\* find_conflicts: Some(number of sources whose target exists) or None
find_conflicts(F, sources, dest) ==
    Bind({i \in 1..Len(sources) :
             Exists(F, TargetOf(sources[i], dest, IsDir(F, dest) \/ Len(sources) > 1))},
         LAMBDA hits : IF hits = {} THEN NoneV ELSE Some(Cardinality(hits)))

\* the loop of copy_sources (moving = FALSE) and move_sources (moving = TRUE)
RECURSIVE TransferLoop(_, _, _, _, _, _)
TransferLoop(F, sources, dest, dest_is_dir, overwrite, moving) ==
    IF sources = <<>> THEN FsOk(F)
    ELSE Bind(TargetOf(sources[1], dest, dest_is_dir),
           LAMBDA target :
             Bind(IF overwrite /\ Exists(F, target) THEN remove_path(F, target) ELSE FsOk(F),
               LAMBDA cleared :
                 IF ~cleared.ok THEN cleared
                 ELSE Bind(IF moving THEN move_entry(cleared.fs, sources[1], target)
                           ELSE copy_entry(cleared.fs, sources[1], target),
                        LAMBDA done :
                          IF ~done.ok THEN done
                          ELSE TransferLoop(done.fs, Tail(sources), dest, dest_is_dir,
                                            overwrite, moving))))

copy_sources(F, sources, dest, overwrite) ==
    TransferLoop(F, sources, dest, IsDir(F, dest) \/ Len(sources) > 1, overwrite, FALSE)

move_sources(F, sources, dest, overwrite) ==
    TransferLoop(F, sources, dest, IsDir(F, dest) \/ Len(sources) > 1, overwrite, TRUE)

\* a deletion that goes on to the remaining sources after a failure
RECURSIVE DeleteLoopOn(_, _)
DeleteLoopOn(F, sources) ==
    IF sources = <<>> THEN FsOk(F)
    ELSE Bind(remove_path(F, sources[1]),
              LAMBDA r : Bind(DeleteLoopOn(r.fs, Tail(sources)),
                              LAMBDA rest : [ok |-> r.ok /\ rest.ok, fs |-> rest.fs]))

\* the loop of execute_confirm's Delete arm: stops at the first failure
RECURSIVE DeleteLoop(_, _)
DeleteLoop(F, sources) ==
    IF sources = <<>> THEN FsOk(F)
    ELSE Bind(remove_path(F, sources[1]),
              LAMBDA r : IF r.ok THEN DeleteLoop(r.fs, Tail(sources)) ELSE r)

\* sync_plan: dst.join(src_path.strip_prefix(src))
SyncTarget(src, dst, src_path) == dst \o SubSeq(src_path, Len(src) + 1, Len(src_path))

\* a plan that takes a file also when the two modification times are equal
SyncWantedOrEqual(F, src_path, dst_path) ==
    IF IsDir(F, src_path) THEN ~Exists(F, dst_path)
    ELSE ~Exists(F, dst_path) \/ F[src_path].mtime >= F[dst_path].mtime

\* whether sync_plan pushes the entry src_path on ops
SyncWanted(F, src_path, dst_path) ==
    IF IsDir(F, src_path) THEN ~Exists(F, dst_path)
    ELSE ~Exists(F, dst_path) \/ F[src_path].mtime > F[dst_path].mtime

\* the walk of sync_plan: pop a directory, push its subdirectories, collect
\* the wanted entries in enumeration order
RECURSIVE SyncWalk(_, _, _, _, _)
SyncWalk(F, src, dst, stack, ops) ==
    IF stack = <<>> THEN ops
    ELSE Bind(IF IsDir(F, stack[Len(stack)])
              THEN EnumSeq(Children(F, stack[Len(stack)])) ELSE <<>>,
              LAMBDA seen :
                  SyncWalk(F, src, dst,
                           SubSeq(stack, 1, Len(stack) - 1)
                               \o SelectSeq(seen, LAMBDA q : IsDir(F, q)),
                           ops \o SelectSeq(seen,
                               LAMBDA q : SyncWanted(F, q, SyncTarget(src, dst, q)))))

sync_plan(F, src, dst) == SyncWalk(F, src, dst, <<src>>, <<>>)

\* sync_execute: [ok, fs, count]; stops at the first failure
RECURSIVE SyncLoop(_, _, _, _, _)
SyncLoop(F, ops, src_root, dst_root, count) ==
    IF ops = <<>> THEN [ok |-> TRUE, fs |-> F, count |-> count]
    ELSE Bind(copy_entry(F, ops[1], SyncTarget(src_root, dst_root, ops[1])),
              LAMBDA r : IF r.ok THEN SyncLoop(r.fs, Tail(ops), src_root, dst_root, count + 1)
                         ELSE [ok |-> FALSE, fs |-> r.fs, count |-> count])

sync_execute(F, ops, src_root, dst_root) == SyncLoop(F, ops, src_root, dst_root, 0)

----------------------------------------------------------------------------
(* model.rs / pane.rs: the Pane *)

\* Pane::new
PaneNew(cwd) ==
    [cwd |-> cwd, entries |-> <<>>, cursor |-> NoneV, offset |-> 0, selected |-> {},
     sort_mode |-> "NameAsc", dirs_first |-> TRUE, vfs |-> NoneV, panelized |-> NoneV,
     mode |-> "Full"]

EntryPaths(entries) == {entries[i].path : i \in 1..Len(entries)}

\* the listing step of refresh: panelized list, archive or directory
Listing(F, pane, show_hidden, io) ==
    IF IsSome(pane.panelized) THEN read_panelized(F, pane.panelized[1])
    ELSE IF IsSome(pane.vfs) THEN read_zip_entries(F, pane.vfs[1], show_hidden, io)
    ELSE read_entries(F, pane.cwd, pane.sort_mode, pane.dirs_first, show_hidden, io)

\* a retain that drops nothing
RetainAll(selected, entries) == selected

\* selected.retain(|path| entries.iter().any(|e| &e.path == path))
Retain(selected, entries) == {p \in selected : p \in EntryPaths(entries)}

\* the cursor part of refresh with Keep leaving the index as it is
RepositionUnclamped(pane, mode) ==
    IF pane.entries = <<>> THEN [pane EXCEPT !.cursor = NoneV, !.offset = 0]
    ELSE IF mode = "Reset" THEN [pane EXCEPT !.cursor = Some(0), !.offset = 0]
    ELSE [pane EXCEPT !.cursor = Some(UnwrapOr(pane.cursor, 0))]

\* the cursor part of refresh (lines 21-39)
Reposition(pane, mode) ==
    IF pane.entries = <<>> THEN [pane EXCEPT !.cursor = NoneV, !.offset = 0]
    ELSE IF mode = "Reset" THEN [pane EXCEPT !.cursor = Some(0), !.offset = 0]
    ELSE [pane EXCEPT !.cursor = Some(Min(UnwrapOr(pane.cursor, 0), Len(pane.entries) - 1))]

\* refresh with the listing cleared when the listing step fails
refresh_clearing(F, pane, mode, show_hidden, io) ==
    Bind(Listing(F, pane, show_hidden, io),
         LAMBDA r :
             IF ~r.ok THEN [ok |-> FALSE, pane |-> [pane EXCEPT !.entries = <<>>]]
             ELSE [ok |-> TRUE,
                   pane |-> Reposition([pane EXCEPT !.entries = r.val,
                                                    !.selected = Retain(pane.selected, r.val)],
                                       mode)])

\* Pane::refresh: [ok, pane]; on a listing error the pane is returned as it was
refresh(F, pane, mode, show_hidden, io) ==
    Bind(Listing(F, pane, show_hidden, io),
         LAMBDA r :
             IF ~r.ok THEN [ok |-> FALSE, pane |-> pane]
             ELSE [ok |-> TRUE,
                   pane |-> Reposition([pane EXCEPT !.entries = r.val,
                                                    !.selected = Retain(pane.selected, r.val)],
                                       mode)])

\* Pane::selected_entry
selected_entry(pane) ==
    IF IsNone(pane.cursor) THEN NoneV
    ELSE IF pane.cursor[1] < Len(pane.entries) THEN Some(pane.entries[pane.cursor[1] + 1])
    ELSE NoneV

\* ensure_visible that never scrolls
ensure_visible_still(pane, view_height) == pane

\* ensure_visible on the pane's table state
ensure_visible(pane, view_height) ==
    IF view_height = 0 \/ IsNone(pane.cursor) THEN pane
    ELSE IF pane.cursor[1] < pane.offset THEN [pane EXCEPT !.offset = pane.cursor[1]]
    ELSE IF pane.cursor[1] >= pane.offset + view_height
    THEN [pane EXCEPT !.offset = SatSub(pane.cursor[1], view_height - 1)]
    ELSE pane

I32Max == 2147483647
I32Min == -I32Max - 1
\* i32 addition as a release build computes it, wrapping (a debug build panics)
AddOverflows(a, b) == (b > 0 /\ a > I32Max - b) \/ (b < 0 /\ a < I32Min - b)
WrapAddI32(a, b) ==
    IF b > 0 /\ a > I32Max - b THEN (a - I32Max) + (b - I32Max) - 2
    ELSE IF b < 0 /\ a < I32Min - b THEN (a + I32Max) + (b + I32Max) + 2
    ELSE a + b
Clamp(x, lo, hi) == IF x < lo THEN lo ELSE IF x > hi THEN hi ELSE x

\* Pane::move_selection
move_selection(pane, delta, view_height) ==
    IF pane.entries = <<>> THEN [pane EXCEPT !.cursor = NoneV, !.offset = 0]
    ELSE ensure_visible(
             [pane EXCEPT !.cursor = Some(Clamp(WrapAddI32(UnwrapOr(pane.cursor, 0), delta),
                                                0, Len(pane.entries) - 1))],
             view_height)

\* the tail of go_parent once the pane is not (or no longer) inside an archive
GoParentFs(F, pane, show_hidden, io) ==
    IF IsSome(pane.panelized)
    THEN refresh(F, [pane EXCEPT !.panelized = NoneV], "Reset", show_hidden, io)
    ELSE IF IsSome(PathParent(pane.cwd))
    THEN refresh(F, [pane EXCEPT !.cwd = PathParent(pane.cwd)[1]], "Reset", show_hidden, io)
    ELSE [ok |-> TRUE, pane |-> pane]

\* Pane::go_parent: [ok, pane]
go_parent(F, pane, show_hidden, io) ==
    IF IsSome(pane.vfs)
    THEN Bind(zip_parent_prefix(pane.vfs[1].prefix),
              LAMBDA parent :
                  IF IsSome(parent)
                  THEN refresh(F, [pane EXCEPT !.vfs = Some([pane.vfs[1] EXCEPT
                                                               !.prefix = parent[1]])],
                               "Reset", show_hidden, io)
                  ELSE GoParentFs(F, [pane EXCEPT !.vfs = NoneV], show_hidden, io))
    ELSE GoParentFs(F, pane, show_hidden, io)

\* a test for ".zip" that takes the letters' case as it is
IsZipNameExact(name) == EndsWith(name, DotZip)

IsZipName(name) == EndsWith(ToLower(name), DotZip)

\* the assignments enter_selected makes before it refreshes: into a directory
\* of the archive, into a directory, or into an archive
Entered(pane, entry) ==
    IF entry.is_dir
    THEN IF IsSome(pane.vfs)
         THEN [pane EXCEPT !.vfs = Some([pane.vfs[1] EXCEPT
                   !.prefix = zip_child_prefix(pane.vfs[1].prefix, entry.path)])]
         ELSE [pane EXCEPT !.cwd = entry.path, !.panelized = NoneV]
    ELSE [pane EXCEPT !.vfs = Some([zip_path |-> entry.path, prefix |-> <<>>])]

\* Pane::enter_selected: [ok, val, pane]; val is whether the pane navigated
enter_selected(F, pane, show_hidden, io) ==
    IF IsNone(selected_entry(pane)) THEN [ok |-> TRUE, val |-> FALSE, pane |-> pane]
    ELSE Bind(selected_entry(pane)[1],
           LAMBDA entry :
             IF entry.is_dir \/ (IsZipName(entry.name) /\ IsNone(pane.vfs))
             THEN Bind(refresh(F, Entered(pane, entry), "Reset", show_hidden, io),
                       LAMBDA r : [ok |-> r.ok, val |-> r.ok, pane |-> r.pane])
             ELSE [ok |-> TRUE, val |-> FALSE, pane |-> pane])

\* Pane::toggle_select
toggle_select(pane) ==
    IF IsNone(selected_entry(pane)) THEN pane
    ELSE Bind(selected_entry(pane)[1].path,
              LAMBDA path :
                  IF path \in pane.selected
                  THEN [pane EXCEPT !.selected = pane.selected \ {path}]
                  ELSE [pane EXCEPT !.selected = pane.selected \cup {path}])

\* Pane::select_all
select_all(pane) == [pane EXCEPT !.selected = EntryPaths(pane.entries)]

\* Pane::clear_selection
clear_selection(pane) == [pane EXCEPT !.selected = {}]

\* Pane::invert_selection
invert_selection(pane) ==
    [pane EXCEPT !.selected = {p \in EntryPaths(pane.entries) : p \notin pane.selected}]

\* selected_paths (app.rs)
selected_paths(pane) ==
    IF pane.selected = {}
    THEN (IF IsSome(selected_entry(pane)) THEN <<selected_entry(pane)[1].path>> ELSE <<>>)
    ELSE Bind(SelectSeq(pane.entries, LAMBDA e : e.path \in pane.selected),
              LAMBDA kept : [i \in 1..Len(kept) |-> kept[i].path])

----------------------------------------------------------------------------
(* app.rs: the application controller *)

VARIABLES
    fs,            \* the filesystem
    left, right,   \* App.left, App.right
    active,        \* App.active: "Left" or "Right"
    status,        \* App.status (the text before any ": {err}")
    viewer,        \* App.viewer: Option<[path, scroll]>
    modal,         \* App.modal: Option<Modal>
    last_click,    \* App.last_click: Option<[pane, row]>
    show_hidden, hide_left, hide_right, hide_all,
    cmdline,       \* App.cmdline: String, as its UTF-8 bytes
    cmd_cursor,    \* App.cmd_cursor: a byte index into cmdline
    quick_search,  \* App.quick_search: Option<String>
    ev,            \* history: the operation the last event ran and its result
    faults         \* environment: listing failures injected so far

panes == <<left, right>>
flags == <<show_hidden, hide_left, hide_right, hide_all, cmdline, cmd_cursor>>
vars == <<fs, left, right, active, status, viewer, modal, last_click, flags,
          quick_search, ev, faults>>

\* bounds of the inputs
MaxViewHeight == 2
MaxFaults == 1
MaxInput == 1
ViewHeights == 0..MaxViewHeight

Other(p) == IF p = "Left" THEN "Right" ELSE "Left"
PaneOf(p) == IF p = "Left" THEN left ELSE right
ActivePane == PaneOf(active)
InactivePane == PaneOf(Other(active))
SetPane(p, v) ==
    IF p = "Left" THEN left' = v /\ right' = right ELSE right' = v /\ left' = left

\* the backing source of a pane
Loc(pane) == [cwd |-> pane.cwd, vfs |-> pane.vfs, panelized |-> pane.panelized]

\* history of the last event: the handler, the pane it worked on, whether the
\* pane operation it ran returned Ok, the source and the cursor that pane had
\* before it, whether it had marks, the key where a modal took it and, when
\* the operation failed, the pane as it was handed to it
Ev(op, ok, p, pre) ==
    [op |-> op, ok |-> ok, pane |-> p, from |-> Loc(pre), cur |-> pre.cursor,
     marks |-> pre.selected # {}, key |-> "", mode |-> pre.sort_mode,
     before |-> IF ok THEN NoneV ELSE Some(pre)]

\* App::new: both panes on the working directory, listed without hidden files
InitShell ==
    /\ fs = InitFS
    /\ right = refresh(InitFS, PaneNew(StartDir), "Reset", FALSE, TRUE).pane
    /\ active = "Left"
    /\ status = "Ready"
    /\ viewer = NoneV
    /\ modal = NoneV
    /\ last_click = NoneV
    /\ show_hidden = FALSE
    /\ hide_left = FALSE
    /\ hide_right = FALSE
    /\ hide_all = FALSE /\ cmdline = <<>> /\ cmd_cursor = 0
    /\ quick_search = NoneV

InitApp ==
    /\ InitShell
    /\ left = refresh(InitFS, PaneNew(StartDir), "Reset", FALSE, TRUE).pane
    /\ ev = Ev("new", TRUE, "Left", PaneNew(StartDir))

Init == InitApp /\ faults = 0

\* Whether the system calls of a listing succeed is an input of each event; the
\* environment makes at most MaxFaults of them fail
IoInputs == IF faults < MaxFaults THEN {TRUE, FALSE} ELSE {TRUE}
Fault(io) == faults' = IF io THEN faults ELSE faults + 1

\* list_height: the height of the pane's table in the last layout; a hidden
\* pane has an empty table
Hidden(p) == IF p = "Left" THEN hide_left ELSE hide_right
Heights(p) == IF Hidden(p) THEN {0} ELSE ViewHeights

\* handle_key reaches the pane keys only with no command line, modal or viewer
PaneKeys == ~hide_all /\ IsNone(modal) /\ IsNone(viewer)

\* read_file_lines / read_zip_file_lines succeed on a readable file or member
CanView(F, pane, path, io) ==
    IF IsSome(pane.vfs)
    THEN /\ io
         /\ Exists(F, pane.vfs[1].zip_path)
         /\ F[pane.vfs[1].zip_path].kind = "file"
         /\ IsSome(F[pane.vfs[1].zip_path].zip)
         /\ \E i \in 1..Len(Archive(F[pane.vfs[1].zip_path].zip[1])) :
                Archive(F[pane.vfs[1].zip_path].zip[1])[i].name
                    = pane.vfs[1].prefix \o PathToStr(path)
    ELSE io /\ Exists(F, path) /\ F[path].kind = "file"

\* App::open_viewer: [viewer, status]
open_viewer(F, pane, io, st) ==
    LET sel == selected_entry(pane)
    IN IF IsNone(sel) THEN [viewer |-> NoneV, status |-> "No file selected"]
       ELSE IF sel[1].is_dir THEN [viewer |-> NoneV, status |-> "Cannot view directory"]
       ELSE IF CanView(F, pane, sel[1].path, io)
       THEN [viewer |-> Some([path |-> sel[1].path, scroll |-> 0]), status |-> st]
       ELSE [viewer |-> NoneV, status |-> "View failed"]

\* Up, Down, PageUp, PageDown
KeyMove ==
    /\ PaneKeys
    /\ \E vh \in Heights(active) : \E delta \in {-1, 1, -vh, vh} :
          SetPane(active, move_selection(ActivePane, delta, vh))
    /\ ev' = Ev("move_selection", TRUE, active, ActivePane)
    /\ UNCHANGED <<fs, active, status, viewer, modal, last_click, flags, quick_search, faults>>

\* Left, and Backspace with no quick search: go_parent
KeyLeft ==
    /\ PaneKeys
    /\ \E io \in IoInputs :
          \E r \in {go_parent(fs, ActivePane, show_hidden, io)} :
             /\ io \/ r # go_parent(fs, ActivePane, show_hidden, TRUE)
             /\ Fault(io)
             /\ SetPane(active, r.pane)
             /\ status' = IF r.ok THEN status ELSE "Up failed"
             /\ ev' = Ev("go_parent", r.ok, active, ActivePane)
    /\ UNCHANGED <<fs, active, viewer, modal, last_click, flags, quick_search>>

\* Right and Enter: enter_selected, and the viewer on Enter when nothing was entered
KeyEnter ==
    /\ PaneKeys
    /\ \E key \in {"Right", "Enter"} : \E io \in IoInputs :
          \E r \in {enter_selected(fs, ActivePane, show_hidden, io)} :
          \E v \in {open_viewer(fs, ActivePane, io, status)} :
             /\ io \/ r # enter_selected(fs, ActivePane, show_hidden, TRUE)
                   \/ (key = "Enter" /\ v # open_viewer(fs, ActivePane, TRUE, status))
             /\ Fault(io)
             /\ SetPane(active, r.pane)
             /\ IF r.ok /\ ~r.val /\ key = "Enter"
                THEN viewer' = v.viewer /\ status' = v.status
                ELSE viewer' = viewer /\ status' = IF r.ok THEN status ELSE "Open failed"
             /\ ev' = Ev("enter_selected", r.ok, active, ActivePane)
    /\ UNCHANGED <<fs, active, modal, last_click, flags, quick_search>>

\* Space / Insert: toggle_select
KeyToggle ==
    /\ PaneKeys
    /\ SetPane(active, toggle_select(ActivePane))
    /\ ev' = Ev("toggle_select", TRUE, active, ActivePane)
    /\ UNCHANGED <<fs, active, status, viewer, modal, last_click, flags, quick_search, faults>>

\* '+': select_all
KeyPlus ==
    /\ PaneKeys
    /\ SetPane(active, select_all(ActivePane))
    /\ ev' = Ev("select_all", TRUE, active, ActivePane)
    /\ UNCHANGED <<fs, active, status, viewer, modal, last_click, flags, quick_search, faults>>

\* '-': clear_selection
KeyMinus ==
    /\ PaneKeys
    /\ SetPane(active, clear_selection(ActivePane))
    /\ ev' = Ev("clear_selection", TRUE, active, ActivePane)
    /\ UNCHANGED <<fs, active, status, viewer, modal, last_click, flags, quick_search, faults>>

\* '*': invert_selection
KeyStar ==
    /\ PaneKeys
    /\ SetPane(active, invert_selection(ActivePane))
    /\ ev' = Ev("invert_selection", TRUE, active, ActivePane)
    /\ UNCHANGED <<fs, active, status, viewer, modal, last_click, flags, quick_search, faults>>

KeySelect == KeyToggle \/ KeyPlus \/ KeyMinus \/ KeyStar

\* the viewer's Escape
ViewerClose ==
    /\ ~hide_all /\ IsNone(modal) /\ IsSome(viewer)
    /\ viewer' = NoneV
    /\ ev' = Ev("viewer_close", TRUE, active, ActivePane)
    /\ UNCHANGED <<fs, panes, active, status, modal, last_click, flags, quick_search, faults>>

\* Tab: the other pane becomes active unless it is hidden
KeyTab ==
    /\ PaneKeys
    /\ active' = (IF active = "Left" /\ ~hide_right THEN "Right"
                  ELSE IF active = "Right" /\ ~hide_left THEN "Left"
                  ELSE active)
    /\ ev' = Ev("tab", TRUE, active, ActivePane)
    /\ UNCHANGED <<fs, panes, status, viewer, modal, last_click, flags, quick_search, faults>>

\* hide_left or hide_right flipped; the focus leaves a pane that becomes hidden
\* while it is the active one
ToggleHide(p) ==
    /\ IF p = "Left" THEN hide_left' = ~hide_left /\ UNCHANGED hide_right
       ELSE hide_right' = ~hide_right /\ UNCHANGED hide_left
    /\ active' = IF ~Hidden(p) /\ active = p THEN Other(p) ELSE active
    /\ UNCHANGED <<show_hidden, hide_all, cmdline, cmd_cursor>>

\* Ctrl+F1 and Ctrl+F2
KeyHide ==
    /\ PaneKeys
    /\ \E p \in {"Left", "Right"} :
          /\ ToggleHide(p)
          /\ ev' = [Ev("hide", TRUE, p, PaneOf(p)) EXCEPT
                       !.key = IF p = "Left" THEN "CtrlF1" ELSE "CtrlF2"]
    /\ UNCHANGED <<fs, panes, status, viewer, modal, last_click, quick_search, faults>>

\* Ctrl+O outside the command line: hide_all is switched on
KeyCtrlO ==
    /\ PaneKeys
    /\ hide_all' = ~hide_all
    /\ ev' = [Ev("hide_all", TRUE, active, ActivePane) EXCEPT !.key = "CtrlO"]
    /\ UNCHANGED <<fs, panes, active, status, viewer, modal, last_click, show_hidden,
                   hide_left, hide_right, cmdline, cmd_cursor, quick_search, faults>>

\* A String is its UTF-8 bytes. E_acute is a character of two bytes, a lead
\* byte and a continuation byte; every other character is one byte
E_acute == "e'"
Utf8(ch) == IF ch = E_acute THEN <<"C3", "A9">> ELSE <<ch>>
IsCont(b) == b = "A9"
\* str::is_char_boundary
is_char_boundary(s, idx) ==
    idx = 0 \/ idx = Len(s) \/ (idx < Len(s) /\ ~IsCont(s[idx + 1]))
\* String::insert and String::remove, which panic unless idx is a character
\* boundary (and, for remove, below the length)
InsertPanics(s, idx) == ~is_char_boundary(s, idx)
str_insert(s, idx, ch) == SubSeq(s, 1, idx) \o Utf8(ch) \o SubSeq(s, idx + 1, Len(s))
RemovePanics(s, idx) == idx >= Len(s) \/ ~is_char_boundary(s, idx)
CharLen(s, idx) == IF idx + 2 <= Len(s) /\ IsCont(s[idx + 2]) THEN 2 ELSE 1
str_remove(s, idx) == SubSeq(s, 1, idx) \o SubSeq(s, idx + 1 + CharLen(s, idx), Len(s))

\* the text keys of handle_cmdline_key: [panic, cmdline, cmd_cursor]
cmdline_key(s, c, key, ch) ==
    LET to(s2, c2) == [panic |-> FALSE, cmdline |-> s2, cmd_cursor |-> c2]
        dies(c2) == [panic |-> TRUE, cmdline |-> s, cmd_cursor |-> c2]
    IN CASE key = "Char" ->
                (IF InsertPanics(s, c) THEN dies(c) ELSE to(str_insert(s, c, ch), c + 1))
         [] key = "Backspace" ->
                (IF c > 0
                 THEN (IF RemovePanics(s, c - 1) THEN dies(c - 1)
                       ELSE to(str_remove(s, c - 1), c - 1))
                 ELSE to(s, c))
         [] key = "Delete" ->
                (IF c < Len(s)
                 THEN (IF RemovePanics(s, c) THEN dies(c) ELSE to(str_remove(s, c), c))
                 ELSE to(s, c))
         [] key = "Left" -> to(s, IF c > 0 THEN c - 1 ELSE c)
         [] key = "Right" -> to(s, IF c < Len(s) THEN c + 1 ELSE c)
         [] key = "Enter" -> to(<<>>, 0)
         [] OTHER -> to(s, c)

\* what is typed on the command line, and how many bytes of it
CmdChars == {"z", E_acute}
MaxCmdLen == 3
CmdKeys == {"CtrlO", "Char", "Backspace", "Delete", "Left", "Right", "Enter", "Tab"}

\* handle_cmdline_key: every key goes to the command line while hide_all is on
CmdlineKeys(keys) ==
    /\ hide_all /\ ev.op # "panic"
    /\ \E key \in keys : \E ch \in CmdChars :
          \E r \in {cmdline_key(cmdline, cmd_cursor, key, ch)} :
             /\ key = "Char" => Len(cmdline) + Len(Utf8(ch)) <= MaxCmdLen
             /\ hide_all' = IF key = "CtrlO" THEN ~hide_all ELSE hide_all
             /\ cmdline' = r.cmdline
             /\ cmd_cursor' = r.cmd_cursor
             /\ status' = IF key = "Enter" THEN "Command" ELSE status
             /\ ev' = [Ev(IF r.panic THEN "panic" ELSE "cmdline_key", ~r.panic,
                          active, ActivePane) EXCEPT !.key = key]
    /\ UNCHANGED <<fs, panes, active, viewer, modal, last_click, show_hidden,
                   hide_left, hide_right, quick_search, faults>>

CmdlineKey == CmdlineKeys(CmdKeys)
\* the keys of the command line that type and erase nothing
CmdlineOther == CmdlineKeys(CmdKeys \ {"Char", "Backspace", "Delete"})

\* F3: open_viewer
KeyF3 ==
    /\ PaneKeys
    /\ \E io \in IoInputs :
          \E v \in {open_viewer(fs, ActivePane, io, status)} :
             /\ io \/ v # open_viewer(fs, ActivePane, TRUE, status)
             /\ Fault(io)
             /\ viewer' = v.viewer
             /\ status' = v.status
    /\ ev' = Ev("open_viewer", TRUE, active, ActivePane)
    /\ UNCHANGED <<fs, panes, active, modal, last_click, flags, quick_search>>

\* F4: open_editor; the editor runs to completion inside the handler, then the
\* pane is re-listed in Keep mode and a failure of that listing is dropped
OpenEditor ==
    /\ LET sel == selected_entry(ActivePane)
       IN IF IsNone(sel)
          THEN /\ status' = "No file selected"
               /\ ev' = Ev("open_editor", TRUE, active, ActivePane)
               /\ UNCHANGED <<panes, faults>>
          ELSE IF sel[1].is_dir
          THEN /\ status' = "Cannot edit directory"
               /\ ev' = Ev("open_editor", TRUE, active, ActivePane)
               /\ UNCHANGED <<panes, faults>>
          ELSE \E ran \in BOOLEAN : \E io \in IoInputs :
                  \E r \in {refresh(fs, ActivePane, "Keep", show_hidden, io)} :
                     IF ran
                     THEN /\ io \/ r # refresh(fs, ActivePane, "Keep", show_hidden, TRUE)
                          /\ Fault(io)
                          /\ status' = "Editor closed"
                          /\ SetPane(active, r.pane)
                          /\ ev' = Ev("open_editor", r.ok, active, ActivePane)
                     ELSE /\ io
                          /\ status' = "Editor failed"
                          /\ ev' = Ev("open_editor", TRUE, active, ActivePane)
                          /\ UNCHANGED <<panes, faults>>
    /\ UNCHANGED <<fs, active, viewer, last_click, flags, quick_search>>

KeyF4 == PaneKeys /\ OpenEditor /\ UNCHANGED modal

\* do_quick_search: the cursor jumps to the first entry whose lower-cased name
\* starts with the search string
do_quick_search(pane, search, view_height) ==
    LET hits == {i \in 1..Len(pane.entries) : StartsWith(ToLower(pane.entries[i].name), search)}
    IN IF hits = {} THEN pane
       ELSE LET idx == CHOOSE i \in hits : \A j \in hits : i <= j
            IN ensure_visible([pane EXCEPT !.cursor = Some(idx - 1)], view_height)

QuickChars == {"f", "Y"}

\* a character key: handle_quick_search_char; expired is whether more than
\* QUICK_SEARCH_TIMEOUT_MS passed since the previous character
KeyChar ==
    /\ PaneKeys
    /\ \E ch \in QuickChars : \E expired \in BOOLEAN : \E vh \in Heights(active) :
          LET old == IF expired THEN <<>> ELSE UnwrapOr(quick_search, <<>>)
              search == old \o <<LowerChar(ch)>>
          IN /\ Len(search) <= MaxInput
             /\ quick_search' = Some(search)
             /\ SetPane(active, do_quick_search(ActivePane, search, vh))
    /\ status' = "Quick search"
    /\ ev' = Ev("quick_search", TRUE, active, ActivePane)
    /\ UNCHANGED <<fs, active, viewer, modal, last_click, flags, faults>>

\* Backspace while a quick search is active
KeyBackspace ==
    /\ PaneKeys
    /\ IsSome(quick_search)
    /\ LET qs == SubSeq(quick_search[1], 1, Len(quick_search[1]) - 1)
       IN IF qs = <<>>
          THEN quick_search' = NoneV /\ status' = "Ready" /\ UNCHANGED panes
          ELSE /\ quick_search' = Some(qs)
               /\ status' = "Quick search"
               /\ \E vh \in Heights(active) :
                     SetPane(active, do_quick_search(ActivePane, qs, vh))
    /\ ev' = Ev("quick_search", TRUE, active, ActivePane)
    /\ UNCHANGED <<fs, active, viewer, modal, last_click, flags, faults>>

\* Escape on the panes
KeyEscape ==
    /\ PaneKeys
    /\ IF IsSome(quick_search)
       THEN quick_search' = NoneV /\ status' = "Ready"
       ELSE UNCHANGED <<quick_search, status>>
    /\ ev' = Ev("escape", TRUE, active, ActivePane)
    /\ UNCHANGED <<fs, panes, active, viewer, modal, last_click, flags, faults>>

\* a handle_mouse that looks at the viewer and the command line only
MouseLiveInModal == IsNone(viewer) /\ ~hide_all

\* handle_mouse returns at once under a viewer, a modal or the command line
MouseLive == IsNone(viewer) /\ IsNone(modal) /\ ~hide_all

\* the mouse wheel
MouseScroll ==
    /\ MouseLive
    /\ \E vh \in Heights(active) : \E delta \in {-1, 1} :
          SetPane(active, move_selection(ActivePane, delta, vh))
    /\ ev' = [Ev("move_selection", TRUE, active, ActivePane) EXCEPT !.key = "Wheel"]
    /\ UNCHANGED <<fs, active, status, viewer, modal, last_click, flags, quick_search, faults>>

\* left button pressed on row `row` of pane p's table; quick is whether the
\* previous click is at most DOUBLE_CLICK_MS old; the event keeps the row, quick
\* and whether the row holds an entry
MouseClick(p) ==
    /\ MouseLive
    /\ \E vh \in Heights(p) : \E row \in 0..(vh - 1) : \E quick \in BOOLEAN : \E io \in IoInputs :
          \E pane \in {PaneOf(p)} :
          \E double_clicked \in {/\ IsSome(last_click)
                                  /\ last_click[1].pane = p
                                  /\ last_click[1].row = row
                                  /\ quick} :
          \E absolute \in {row + pane.offset} :
          \E hit \in {absolute < Len(pane.entries)} :
          \E picked \in {IF hit
                          THEN ensure_visible([pane EXCEPT !.cursor = Some(absolute)], vh)
                          ELSE pane} :
          \E r \in {IF hit /\ double_clicked
                     THEN enter_selected(fs, picked, show_hidden, io)
                     ELSE [ok |-> TRUE, val |-> FALSE, pane |-> picked]} :
          \E opened_dir \in {r.ok /\ r.val} :
          \E v \in {open_viewer(fs, r.pane, io, status)} :
             /\ io \/ (double_clicked /\
                         (r # enter_selected(fs, picked, show_hidden, TRUE)
                            \/ (~opened_dir /\ v # open_viewer(fs, r.pane, TRUE, status))))
             /\ Fault(io)
             /\ active' = p
             /\ SetPane(p, r.pane)
             /\ last_click' = (IF ~hit THEN last_click
                               ELSE IF double_clicked THEN NoneV
                               ELSE Some([pane |-> p, row |-> absolute]))
             /\ IF double_clicked /\ ~opened_dir
                THEN viewer' = v.viewer /\ status' = v.status
                ELSE UNCHANGED <<viewer, status>>
             /\ ev' = [Ev("mouse_click", r.ok, p, picked) EXCEPT !.key = "Click"]
                        @@ [row |-> row, quick |-> quick, hit |-> hit]
    /\ UNCHANGED <<fs, modal, flags, quick_search>>

\* left button pressed on the top line of the screen, outside the tables
MouseTop ==
    /\ MouseLive
    /\ modal' = Some([kind |-> "PullDown", menu_idx |-> 0, item_idx |-> 0])
    /\ ev' = [Ev("pull_down", TRUE, active, ActivePane) EXCEPT !.key = "Click"]
    /\ UNCHANGED <<fs, panes, active, status, viewer, last_click, flags, quick_search, faults>>

\* the files another process may delete while the program runs
Removable == {StartDir \o <<N_f>>}

\* environment: another process deletes a file or an empty directory
EnvRemove ==
    /\ \E path \in Removable :
          /\ Exists(fs, path)
          /\ Children(fs, path) = {}
          /\ fs' = [q \in DOMAIN fs \ {path} |-> fs[q]]
    /\ ev' = Ev("external", TRUE, active, ActivePane)
    /\ UNCHANGED <<panes, active, status, viewer, modal, last_click, flags,
                   quick_search, faults>>

\* handle_key hands every key to the open modal
ModalKeys(kind) == ~hide_all /\ IsSome(modal) /\ modal[1].kind = kind

PullDown(menu_idx, item_idx) ==
    Some([kind |-> "PullDown", menu_idx |-> menu_idx, item_idx |-> item_idx])

\* F9
KeyF9 ==
    /\ PaneKeys
    /\ modal' = PullDown(0, 0)
    /\ ev' = Ev("pull_down", TRUE, active, ActivePane)
    /\ UNCHANGED <<fs, panes, active, status, viewer, last_click, flags, quick_search, faults>>

\* PullDown: Left, Right, Up, Down, Escape / F9
PullDownKey ==
    /\ ModalKeys("PullDown")
    /\ LET m == modal[1].menu_idx
           i == modal[1].item_idx
       IN \E key \in {"Left", "Right", "Up", "Down", "Escape"} :
             /\ modal' = CASE key = "Left" -> (IF m > 0 THEN PullDown(m - 1, 0) ELSE modal)
                           [] key = "Right" ->
                                  (IF m + 1 < MenuCount THEN PullDown(m + 1, 0) ELSE modal)
                           [] key = "Down" ->
                                  (IF i + 1 < Len(menu_items(m)) THEN PullDown(m, i + 1) ELSE modal)
                           [] key = "Up" -> (IF i > 0 THEN PullDown(m, i - 1) ELSE modal)
                           [] OTHER -> NoneV
             /\ ev' = [Ev("pull_down", TRUE, active, ActivePane) EXCEPT !.key = key]
    /\ UNCHANGED <<fs, panes, active, status, viewer, last_click, flags, quick_search, faults>>

\* the menu action under the PullDown's highlight
MenuAction == menu_items(modal[1].menu_idx)[modal[1].item_idx + 1]

\* PullDown Enter on "On/Off" of the Left or the Right menu
PullDownOnOff ==
    /\ ModalKeys("PullDown")
    /\ \E p \in {"Left", "Right"} :
          /\ MenuAction = (IF p = "Left" THEN "LeftOnOff" ELSE "RightOnOff")
          /\ ToggleHide(p)
          /\ ev' = [Ev("hide", TRUE, p, PaneOf(p)) EXCEPT !.key = "Enter"]
    /\ modal' = NoneV
    /\ UNCHANGED <<fs, panes, status, viewer, last_click, quick_search, faults>>

\* PullDown Enter on "View": open_viewer, and the menu closes
PullDownView ==
    /\ ModalKeys("PullDown") /\ MenuAction = "View"
    /\ \E io \in IoInputs :
          \E v \in {open_viewer(fs, ActivePane, io, status)} :
             /\ io \/ v # open_viewer(fs, ActivePane, TRUE, status)
             /\ Fault(io)
             /\ viewer' = v.viewer
             /\ status' = v.status
    /\ modal' = NoneV
    /\ ev' = [Ev("open_viewer", TRUE, active, ActivePane) EXCEPT !.key = "Enter"]
    /\ UNCHANGED <<fs, panes, active, last_click, flags, quick_search>>

\* PullDown Enter on "Edit": open_editor, and the menu closes
PullDownEdit ==
    /\ ModalKeys("PullDown") /\ MenuAction = "Edit"
    /\ OpenEditor
    /\ modal' = NoneV

\* PullDown Enter on "Find file": begin_find
PullDownFind ==
    /\ ModalKeys("PullDown") /\ MenuAction = "Find"
    /\ IF IsSome(ActivePane.vfs)
       THEN status' = "Find in archive not supported" /\ modal' = NoneV
       ELSE /\ modal' = Some([kind |-> "Prompt", value |-> <<>>, cursor |-> 0,
                              action |-> [kind |-> "Find", base |-> ActivePane.cwd]])
            /\ status' = status
    /\ ev' = Ev("begin_find", TRUE, active, ActivePane)
    /\ UNCHANGED <<fs, panes, active, viewer, last_click, flags, quick_search, faults>>

\* PullDown Enter on "Directory tree": open_tree
PullDownTree ==
    /\ ModalKeys("PullDown") /\ MenuAction = "Tree"
    /\ modal' = Some([kind |-> "Tree", pane |-> active,
                      items |-> build_tree(fs, ActivePane.cwd, 2, show_hidden),
                      selected |-> 0, scroll |-> 0])
    /\ ev' = Ev("open_tree", TRUE, active, ActivePane)
    /\ UNCHANGED <<fs, panes, active, status, viewer, last_click, flags, quick_search, faults>>

\* PullDown Enter on "Drive...", and Alt+F1 / Alt+F2 on the panes: open_drive_menu
OpenDrive ==
    /\ \E p \in {active} :
          /\ \/ PaneKeys
             \/ ModalKeys("PullDown") /\ MenuAction = (IF p = "Left" THEN "LeftDrive" ELSE "RightDrive")
          /\ modal' = Some([kind |-> "DriveMenu", pane |-> p, items |-> list_drive_roots(fs),
                            selected |-> 0, scroll |-> 0])
    /\ ev' = Ev("open_drive_menu", TRUE, active, ActivePane)
    /\ UNCHANGED <<fs, panes, active, status, viewer, last_click, flags, quick_search, faults>>

\* PullDown Enter on "Re-read" of pane p: a Keep refresh whose failure is dropped
PullDownReread ==
    /\ \E p \in {active} :
          /\ ModalKeys("PullDown")
          /\ MenuAction = (IF p = "Left" THEN "LeftReread" ELSE "RightReread")
          /\ \E io \in IoInputs :
                \E r \in {refresh(fs, PaneOf(p), "Keep", show_hidden, io)} :
                   /\ io \/ r # refresh(fs, PaneOf(p), "Keep", show_hidden, TRUE)
                   /\ Fault(io)
                   /\ SetPane(p, r.pane)
                   /\ ev' = Ev("reread", r.ok, p, PaneOf(p))
    /\ modal' = NoneV
    /\ UNCHANGED <<fs, active, status, viewer, last_click, flags, quick_search>>

SortOps == {"sort_name", "sort_ext", "sort_time", "sort_size", "unsorted"}

\* the entry of the Left or Right menu that sets a sort order
SortItem(p, op) ==
    CASE op = "sort_name" -> (IF p = "Left" THEN "LeftSortName" ELSE "RightSortName")
      [] op = "sort_ext" -> (IF p = "Left" THEN "LeftSortExt" ELSE "RightSortExt")
      [] op = "sort_time" -> (IF p = "Left" THEN "LeftSortTime" ELSE "RightSortTime")
      [] op = "sort_size" -> (IF p = "Left" THEN "LeftSortSize" ELSE "RightSortSize")
      [] OTHER -> (IF p = "Left" THEN "LeftUnsorted" ELSE "RightUnsorted")

SortTo(op, mode) ==
    CASE op = "sort_name" -> toggle_name_sort(mode)
      [] op = "sort_ext" -> toggle_ext_sort(mode)
      [] op = "sort_time" -> toggle_time_sort(mode)
      [] op = "sort_size" -> toggle_size_sort(mode)
      [] OTHER -> "Unsorted"

\* Enter on a sort entry of the Left or Right menu: the order of that pane is
\* set and the pane is listed again, a failure of the listing is dropped
PullDownSort ==
    /\ ModalKeys("PullDown")
    /\ \E p \in {"Left", "Right"} : \E op \in SortOps :
          /\ MenuAction = SortItem(p, op)
          /\ \E io \in IoInputs :
                \E q \in {[PaneOf(p) EXCEPT !.sort_mode = SortTo(op, PaneOf(p).sort_mode)]} :
                   \E r \in {refresh(fs, q, "Keep", show_hidden, io)} :
                      /\ Fault(io)
                      /\ SetPane(p, r.pane)
                      /\ ev' = Ev(op, r.ok, p, PaneOf(p))
    /\ modal' = NoneV
    /\ UNCHANGED <<fs, active, status, viewer, last_click, flags, quick_search>>

PullDownPanelOptions ==
    /\ ModalKeys("PullDown") /\ MenuAction = "PanelOptions"
    /\ modal' = Some([kind |-> "PanelOptions", pane |-> active, selected |-> 0,
                      dirs_first |-> ActivePane.dirs_first,
                      sort_mode |-> ActivePane.sort_mode])
    /\ ev' = Ev("panel_options", TRUE, active, ActivePane)
    /\ UNCHANGED <<fs, panes, active, status, viewer, last_click, flags, quick_search, faults>>

PanelOptionsKey ==
    /\ ModalKeys("PanelOptions")
    /\ \E key \in {"Escape", "Up", "Down"} :
          /\ modal' = CASE key = "Up" ->
                              Some([modal[1] EXCEPT !.selected = IF @ > 0 THEN @ - 1 ELSE @])
                        [] key = "Down" ->
                              Some([modal[1] EXCEPT
                                      !.selected = IF @ + 1 < 2 THEN @ + 1 ELSE @])
                        [] OTHER -> NoneV
          /\ ev' = [Ev("panel_options", TRUE, active, ActivePane) EXCEPT !.key = key]
    /\ UNCHANGED <<fs, panes, active, status, viewer, last_click, flags, quick_search, faults>>

\* Enter in the panel options: the first row flips dirs_first, the second
\* steps the sort order; the pane is listed again and the dialog stays open
PanelOptionsEnter ==
    /\ ModalKeys("PanelOptions")
    /\ \E p \in {modal[1].pane} : \E io \in IoInputs :
          \E q \in {IF modal[1].selected = 0
                    THEN [PaneOf(p) EXCEPT !.dirs_first = ~@]
                    ELSE [PaneOf(p) EXCEPT !.sort_mode = next_sort_mode(@)]} :
             \E r \in {refresh(fs, q, "Keep", show_hidden, io)} :
                /\ Fault(io)
                /\ SetPane(p, r.pane)
                /\ modal' = Some([modal[1] EXCEPT !.dirs_first = q.dirs_first,
                                                  !.sort_mode = q.sort_mode])
                /\ ev' = Ev("panel_option", r.ok, p, PaneOf(p))
    /\ UNCHANGED <<fs, active, status, viewer, last_click, flags, quick_search>>

PromptChars == {"z", "f"}
\* what is typed into the Attributes prompt, and how much of it
ChmodChars == {"0", "1", "7", "8", "+"}
MaxChmodLen == 3
TypedChars(kind) == IF kind = "Chmod" THEN ChmodChars ELSE PromptChars
TypedLen(kind) == IF kind = "Chmod" THEN MaxChmodLen ELSE MaxInput
InsertCh(v, at, ch) == SubSeq(v, 1, at) \o <<ch>> \o SubSeq(v, at + 1, Len(v))
RemoveCh(v, at) == SubSeq(v, 1, at) \o SubSeq(v, at + 2, Len(v))

\* Prompt: Escape, Left, Right, Backspace, Delete and characters
PromptKey ==
    /\ ModalKeys("Prompt")
    /\ \E key \in {"Escape", "Left", "Right", "Backspace", "Delete", "Char"} :
       \E ch \in TypedChars(modal[1].action.kind) :
          LET v == modal[1].value
              c == modal[1].cursor
              With(v2, c2) == Some([modal[1] EXCEPT !.value = v2, !.cursor = c2])
          IN /\ key = "Char" => Len(v) < TypedLen(modal[1].action.kind)
             /\ modal' = CASE key = "Escape" -> NoneV
                           [] key = "Left" -> With(v, IF c > 0 THEN c - 1 ELSE c)
                           [] key = "Right" -> With(v, IF c < Len(v) THEN c + 1 ELSE c)
                           [] key = "Backspace" ->
                                  (IF c > 0 THEN With(RemoveCh(v, c - 1), c - 1) ELSE modal)
                           [] key = "Delete" ->
                                  (IF c < Len(v) THEN With(RemoveCh(v, c), c) ELSE modal)
                           [] OTHER -> With(InsertCh(v, c, ch), c + 1)
             /\ ev' = [Ev("prompt_key", TRUE, active, ActivePane) EXCEPT !.key = key]
    /\ UNCHANGED <<fs, panes, active, status, viewer, last_click, flags, quick_search, faults>>

\* format!("{:o}", n)
OctDigits == <<"0", "1", "2", "3", "4", "5", "6", "7">>
RECURSIVE FormatOctal(_)
FormatOctal(n) == IF n < 8 THEN <<OctDigits[n + 1]>>
                  ELSE Append(FormatOctal(n \div 8), OctDigits[(n % 8) + 1])

\* str::trim_start_matches('0')
RECURSIVE TrimStartZeros(_)
TrimStartZeros(t) == IF t # <<>> /\ t[1] = "0" THEN TrimStartZeros(Tail(t)) ELSE t

IsOctDigit(c) == \E i \in 1..8 : OctDigits[i] = c
OctVal(c) == (CHOOSE i \in 1..8 : OctDigits[i] = c) - 1
RECURSIVE OctFold(_, _)
OctFold(t, acc) == IF t = <<>> THEN acc ELSE OctFold(Tail(t), acc * 8 + OctVal(t[1]))

\* u32::from_str_radix(t, 8) on texts too short to overflow: a sign alone and
\* the empty text are errors, a leading + is skipped, every other character
\* has to be an octal digit
from_str_radix8(t) ==
    IF t = <<>> THEN Err
    ELSE IF Len(t) = 1 /\ t[1] \in {"+", "-"} THEN Err
    ELSE Bind(IF t[1] = "+" THEN Tail(t) ELSE t,
              LAMBDA digits :
                  IF \A i \in 1..Len(digits) : IsOctDigit(digits[i])
                  THEN Ok(OctFold(digits, 0)) ELSE Err)

\* execute_prompt (Chmod): the permission bits that are set
chmod_bits(input) ==
    Bind(from_str_radix8(TrimStartZeros(input)),
         LAMBDA octal : (IF octal.ok THEN octal.val ELSE 420) % 512)

\* Prompt Enter with a Find action: nothing runs on an empty input, else
\* execute_prompt lists the matches under the base directory
PromptEnterFind ==
    /\ ModalKeys("Prompt") /\ modal[1].action.kind = "Find"
    /\ \E input \in {Trim(modal[1].value)} :
       \E results \in {find_matches(fs, modal[1].action.base, input, show_hidden)} :
          IF input = <<>> THEN modal' = NoneV /\ status' = status
          ELSE IF results = <<>> THEN modal' = NoneV /\ status' = "No matches"
          ELSE /\ modal' = Some([kind |-> "FindResults", query |-> input, items |-> results,
                                 selected |-> 0, scroll |-> 0])
               /\ status' = status
    /\ ev' = Ev("find", TRUE, active, ActivePane)
    /\ UNCHANGED <<fs, panes, active, viewer, last_click, flags, quick_search, faults>>

\* Up and Down in a list modal whose list shows view_height rows
ListUp(m) ==
    LET sel == IF m.selected > 0 THEN m.selected - 1 ELSE m.selected
    IN [m EXCEPT !.selected = sel, !.scroll = IF sel < m.scroll THEN sel ELSE m.scroll]
\* a Down that moves the selection and leaves the scroll offset alone
ListDownNoScroll(m, view_height) ==
    [m EXCEPT !.selected = IF m.selected + 1 < Len(m.items) THEN m.selected + 1
                           ELSE m.selected]
ListDown(m, view_height) ==
    LET sel == IF m.selected + 1 < Len(m.items) THEN m.selected + 1 ELSE m.selected
    IN [m EXCEPT !.selected = sel,
                 !.scroll = IF sel >= m.scroll + view_height
                            THEN SatSub(sel, view_height - 1) ELSE m.scroll]

FindViewHeight == 6
TreeViewHeight == 8
ListHeight(kind) == IF kind = "FindResults" THEN FindViewHeight ELSE TreeViewHeight

\* FindResults, Tree, DriveMenu: Escape / F10, Up, Down
ListKey ==
    /\ \E kind \in {"FindResults", "Tree", "DriveMenu"} :
          /\ ModalKeys(kind)
          /\ \E key \in {"Escape", "Up", "Down"} :
                /\ modal' = CASE key = "Up" -> Some(ListUp(modal[1]))
                              [] key = "Down" -> Some(ListDown(modal[1], ListHeight(kind)))
                              [] OTHER -> NoneV
                /\ ev' = [Ev("list_key", TRUE, active, ActivePane) EXCEPT !.key = key]
    /\ UNCHANGED <<fs, panes, active, status, viewer, last_click, flags, quick_search, faults>>

(* app.rs: the Help, About, Config and UserMenu modals *)

MaxHelpScroll == 2      \* the help text is scrolled no further than this
UserViewHeight == 6
\* the user menu files there may be: no item, two items, eight items
UserMenuSizes == {0, 2, 8}
load_user_menu(n) == [i \in 1..n |-> [label |-> i, command |-> i]]

Help(page, scroll) == Some([kind |-> "Help", page |-> page, scroll |-> scroll])

\* F1
KeyF1 ==
    /\ PaneKeys
    /\ modal' = Help(0, 0)
    /\ ev' = Ev("open_help", TRUE, active, ActivePane)
    /\ UNCHANGED <<fs, panes, active, status, viewer, last_click, flags, quick_search, faults>>

\* F2: open_user_menu
KeyF2 ==
    /\ PaneKeys
    /\ \E n \in UserMenuSizes :
          modal' = Some([kind |-> "UserMenu", items |-> load_user_menu(n),
                         selected |-> 0, scroll |-> 0])
    /\ ev' = Ev("open_user_menu", TRUE, active, ActivePane)
    /\ UNCHANGED <<fs, panes, active, status, viewer, last_click, flags, quick_search, faults>>

\* Enter on Help, About or Config in the pull-down menu
PullDownInfo ==
    /\ ModalKeys("PullDown") /\ MenuAction \in {"Help", "About", "Config"}
    /\ modal' = CASE MenuAction = "Help" -> Help(0, 0)
                  [] MenuAction = "About" -> Some([kind |-> "About"])
                  [] OTHER -> Some([kind |-> "Config", page |-> 0, selected |-> 0,
                                    show_hidden |-> show_hidden, auto_save |-> FALSE,
                                    confirm_delete |-> TRUE, confirm_overwrite |-> TRUE])
    /\ ev' = Ev("open_info", TRUE, active, ActivePane)
    /\ UNCHANGED <<fs, panes, active, status, viewer, last_click, flags, quick_search, faults>>

HelpKey ==
    /\ ModalKeys("Help")
    /\ \E key \in {"Escape", "Left", "Right", "Up", "Down", "PageUp", "PageDown", "Other"} :
          LET pg == modal[1].page
              sc == modal[1].scroll
          IN /\ key = "Down" => sc + 1 <= MaxHelpScroll
             /\ key = "PageDown" => sc + 5 <= MaxHelpScroll
             /\ modal' = CASE key = "Escape" -> NoneV
                           [] key = "Left" -> (IF pg > 0 THEN Help(pg - 1, 0) ELSE modal)
                           [] key = "Right" -> (IF pg < 3 THEN Help(pg + 1, 0) ELSE modal)
                           [] key = "Up" -> Help(pg, SatSub(sc, 1))
                           [] key = "Down" -> Help(pg, sc + 1)
                           [] key = "PageUp" -> Help(pg, SatSub(sc, 5))
                           [] key = "PageDown" -> Help(pg, sc + 5)
                           [] OTHER -> modal
             /\ ev' = [Ev("help_key", TRUE, active, ActivePane) EXCEPT !.key = key]
    /\ UNCHANGED <<fs, panes, active, status, viewer, last_click, flags, quick_search, faults>>

\* an About dialog that only Enter closes
about_key_enter_only(m, key) == IF key = "Enter" THEN NoneV ELSE Some(m)

\* the About arm of handle_modal_key
about_key(m, key) == IF key \in {"Escape", "Enter", "F10"} THEN NoneV ELSE Some(m)

AboutKey ==
    /\ ModalKeys("About")
    /\ \E key \in {"Escape", "Enter", "Other"} :
          /\ modal' = about_key(modal[1], key)
          /\ ev' = [Ev("about_key", TRUE, active, ActivePane) EXCEPT !.key = key]
    /\ UNCHANGED <<fs, panes, active, status, viewer, last_click, flags, quick_search, faults>>

\* the rows of a page of the Config dialog
items_per_page(page) == IF page = 1 THEN 2 ELSE 1

\* the Config dialog under Space or Enter, the switch of show_hidden apart
ConfigToggle(m) ==
    CASE m.page = 1 /\ m.selected = 0 -> [m EXCEPT !.confirm_delete = ~@]
      [] m.page = 1 /\ m.selected = 1 -> [m EXCEPT !.confirm_overwrite = ~@]
      [] m.page = 2 /\ m.selected = 0 -> [m EXCEPT !.auto_save = ~@]
      [] OTHER -> m

ConfigKey ==
    /\ ModalKeys("Config")
    /\ \E key \in {"Escape", "Left", "Right", "Up", "Down"} :
          LET pg == modal[1].page
              sel == modal[1].selected
          IN /\ modal' = CASE key = "Escape" -> NoneV
                           [] key = "Left" ->
                                  (IF pg > 0
                                   THEN Some([modal[1] EXCEPT !.page = pg - 1, !.selected = 0])
                                   ELSE modal)
                           [] key = "Right" ->
                                  (IF pg < 2
                                   THEN Some([modal[1] EXCEPT !.page = pg + 1, !.selected = 0])
                                   ELSE modal)
                           [] key = "Up" ->
                                  Some([modal[1] EXCEPT
                                          !.selected = IF sel > 0 THEN sel - 1 ELSE sel])
                           [] OTHER ->
                                  Some([modal[1] EXCEPT
                                          !.selected = IF sel + 1 < items_per_page(pg)
                                                       THEN sel + 1 ELSE sel])
             /\ ev' = [Ev("config_key", TRUE, active, ActivePane) EXCEPT !.key = key]
    /\ UNCHANGED <<fs, panes, active, status, viewer, last_click, flags, quick_search, faults>>

\* Space or Enter in the Config dialog: the first row of the first page
\* switches show_hidden and lists both panes again, the other rows flip a
\* field of the dialog
ConfigEnter ==
    /\ ModalKeys("Config")
    /\ \E key \in {"Space", "Enter"} :
          /\ IF modal[1].page = 0 /\ modal[1].selected = 0
             THEN /\ show_hidden' = ~show_hidden
                  /\ modal' = Some([modal[1] EXCEPT !.show_hidden = ~show_hidden])
                  /\ left' = refresh(fs, left, "Keep", ~show_hidden, TRUE).pane
                  /\ right' = refresh(fs, right, "Keep", ~show_hidden, TRUE).pane
             ELSE /\ modal' = Some(ConfigToggle(modal[1]))
                  /\ UNCHANGED <<panes, show_hidden>>
          /\ ev' = [Ev("config_key", TRUE, active, ActivePane) EXCEPT !.key = key]
    /\ UNCHANGED <<fs, active, status, viewer, last_click, hide_left, hide_right, hide_all,
                   cmdline, cmd_cursor, quick_search, faults>>

\* the UserMenu: Escape, F4 (the menu file is edited and loaded again), Up,
\* Down, Enter (the command is shown in the status line)
UserMenuKey ==
    /\ ModalKeys("UserMenu")
    /\ \E key \in {"Escape", "F4", "Up", "Down", "Enter", "Other"} :
       \E n \in UserMenuSizes :
          /\ key # "F4" => n = 0
          /\ modal' = CASE key = "Escape" -> NoneV
                        [] key = "F4" -> Some([modal[1] EXCEPT !.items = load_user_menu(n),
                                                               !.selected = 0, !.scroll = 0])
                        [] key = "Up" -> Some(ListUp(modal[1]))
                        [] key = "Down" -> Some(ListDown(modal[1], UserViewHeight))
                        [] key = "Enter" -> NoneV
                        [] OTHER -> modal
          /\ status' = IF key = "Enter" /\ modal[1].selected < Len(modal[1].items)
                       THEN "Run" ELSE status
          /\ ev' = [Ev("user_menu_key", TRUE, active, ActivePane) EXCEPT !.key = key]
    /\ UNCHANGED <<fs, panes, active, viewer, last_click, flags, quick_search, faults>>

\* FindResults Ctrl+P: the results become the active pane's panelized list
FindPanelize ==
    /\ ModalKeys("FindResults")
    /\ \E io \in IoInputs :
          \E pre \in {[ActivePane EXCEPT !.panelized = Some(modal[1].items)]} :
          \E r \in {refresh(fs, pre, "Reset", show_hidden, io)} :
             /\ io \/ r # refresh(fs, pre, "Reset", show_hidden, TRUE)
             /\ Fault(io)
             /\ SetPane(active, r.pane)
             /\ ev' = Ev("panelize", r.ok, active, ActivePane)
    /\ modal' = NoneV
    /\ UNCHANGED <<fs, active, status, viewer, last_click, flags, quick_search>>

\* FindResults Enter: a directory becomes the pane's cwd, a file is viewed
FindEnter ==
    /\ ModalKeys("FindResults")
    /\ modal[1].selected < Len(modal[1].items)
    /\ \E path \in {modal[1].items[modal[1].selected + 1]} :
          IF IsDir(fs, path)
          THEN /\ \E io \in IoInputs :
                     \E pre \in {[ActivePane EXCEPT !.cwd = path]} :
                     \E r \in {refresh(fs, pre, "Reset", show_hidden, io)} :
                        /\ io \/ r # refresh(fs, pre, "Reset", show_hidden, TRUE)
                        /\ Fault(io)
                        /\ SetPane(active, r.pane)
                        /\ ev' = Ev("find_enter", r.ok, active, ActivePane)
               /\ UNCHANGED <<viewer, status>>
          ELSE /\ \E io \in IoInputs :
                     /\ io \/ (Exists(fs, path) /\ fs[path].kind = "file")
                     /\ Fault(io)
                     /\ IF io /\ Exists(fs, path) /\ fs[path].kind = "file"
                        THEN viewer' = Some([path |-> path, scroll |-> 0]) /\ status' = status
                        ELSE viewer' = viewer /\ status' = "View failed"
               /\ ev' = Ev("find_enter", TRUE, active, ActivePane)
               /\ UNCHANGED panes
    /\ modal' = NoneV
    /\ UNCHANGED <<fs, active, last_click, flags, quick_search>>

\* Tree Enter: the chosen directory becomes the cwd of the pane the tree was
\* opened for
TreeEnter ==
    /\ ModalKeys("Tree")
    /\ modal[1].selected < Len(modal[1].items)
    /\ \E io \in IoInputs :
          \E p \in {modal[1].pane} :
          \E pre \in {[PaneOf(p) EXCEPT !.cwd = modal[1].items[modal[1].selected + 1].path]} :
          \E r \in {refresh(fs, pre, "Reset", show_hidden, io)} :
             /\ io \/ r # refresh(fs, pre, "Reset", show_hidden, TRUE)
             /\ Fault(io)
             /\ SetPane(p, r.pane)
             /\ ev' = Ev("tree_enter", r.ok, p, PaneOf(p))
    /\ modal' = NoneV
    /\ UNCHANGED <<fs, active, status, viewer, last_click, flags, quick_search>>

\* DriveMenu Enter: the pane leaves any archive or panelized list for the root
DriveEnter ==
    /\ ModalKeys("DriveMenu")
    /\ IF modal[1].selected < Len(modal[1].items)
       THEN \E io \in IoInputs :
               \E p \in {modal[1].pane} :
               \E pre \in {[PaneOf(p) EXCEPT !.cwd = modal[1].items[modal[1].selected + 1],
                                              !.vfs = NoneV, !.panelized = NoneV]} :
               \E r \in {refresh(fs, pre, "Reset", show_hidden, io)} :
                  /\ io \/ r # refresh(fs, pre, "Reset", show_hidden, TRUE)
                  /\ Fault(io)
                  /\ SetPane(p, r.pane)
                  /\ ev' = Ev("drive_enter", r.ok, p, PaneOf(p))
       ELSE /\ ev' = Ev("drive_enter", TRUE, active, ActivePane)
            /\ UNCHANGED <<panes, faults>>
    /\ modal' = NoneV
    /\ UNCHANGED <<fs, active, status, viewer, last_click, flags, quick_search>>

\* format!("{} files", n) for the counts the model reaches
CountFiles(n) ==
    <<(CASE n = 0 -> "0" [] n = 1 -> "1" [] n = 2 -> "2" [] n = 3 -> "3" [] n = 4 -> "4"
         [] n = 5 -> "5" [] n = 6 -> "6" [] n = 7 -> "7" [] n = 8 -> "8" [] OTHER -> "9"),
      " ", "f", "i", "l", "e", "s">>

\* begin_copy (is_copy) and begin_move: [modal, status]
begin_transfer(pane, other, is_copy, st) ==
    IF IsSome(pane.vfs)
    THEN [modal |-> NoneV,
          status |-> IF is_copy THEN "Copy from archive not supported"
                     ELSE "Move in archive not supported"]
    ELSE IF selected_paths(pane) = <<>> THEN [modal |-> NoneV, status |-> "No file selected"]
    ELSE Bind(selected_paths(pane),
           LAMBDA sources :
             Bind(IF Len(sources) = 1
                  THEN (IF is_copy
                        THEN (IF IsSome(selected_entry(pane)) THEN selected_entry(pane)[1].name
                              ELSE <<>>)
                        ELSE FileName(sources[1]))
                  ELSE CountFiles(Len(sources)),
               LAMBDA source_name :
                 Bind(IF Len(sources) = 1 THEN PathToStr(Join(other.cwd, source_name))
                      ELSE PathToStr(other.cwd),
                   LAMBDA dest :
                     [modal |-> Some([kind |-> IF is_copy THEN "CopyDialog" ELSE "MoveDialog",
                                      sources |-> sources, source_name |-> source_name,
                                      dest |-> dest, cursor |-> Len(dest),
                                      include_subdirs |-> FALSE, copy_newer_only |-> FALSE,
                                      use_filters |-> FALSE, check_target_space |-> FALSE,
                                      focus |-> "Input"]),
                      status |-> st])))

\* begin_delete: [modal, status]
begin_delete(pane, st) ==
    IF IsSome(pane.vfs)
    THEN [modal |-> NoneV, status |-> "Delete in archive not supported"]
    ELSE IF selected_paths(pane) = <<>> THEN [modal |-> NoneV, status |-> "No file selected"]
    ELSE Bind(selected_paths(pane),
           LAMBDA sources :
             [modal |-> Some([kind |-> "DeleteDialog", sources |-> sources,
                              source_name |->
                                  IF Len(sources) = 1
                                  THEN (IF IsSome(selected_entry(pane))
                                        THEN selected_entry(pane)[1].name ELSE <<>>)
                                  ELSE CountFiles(Len(sources)),
                              use_filters |-> FALSE, focus |-> 1]),
              status |-> st])

\* how many paths of the tree differ from the tree the application started in
FsDelta(F) ==
    Cardinality({p \in DOMAIN F \cup DOMAIN InitFS :
                    p \notin DOMAIN F \/ p \notin DOMAIN InitFS \/ F[p] # InitFS[p]})
MaxChanged == 1

\* F5, F6, F8, while the tree has changed in fewer than MaxChanged paths
KeyBegin ==
    /\ PaneKeys
    /\ FsDelta(fs) < MaxChanged
    /\ \E key \in {"F5", "F6", "F8"} :
          \E r \in {IF key = "F8" THEN begin_delete(ActivePane, status)
                     ELSE begin_transfer(ActivePane, InactivePane, key = "F5", status)} :
             /\ modal' = r.modal
             /\ status' = r.status
             /\ ev' = Ev(key, TRUE, active, ActivePane)
    /\ UNCHANGED <<fs, panes, active, viewer, last_click, flags, quick_search, faults>>

\* F7: begin_mkdir; the prompt starts with the name new_folder
N_new_folder == <<"n", "e", "w", "_", "f", "o", "l", "d", "e", "r">>
KeyF7 ==
    /\ PaneKeys
    /\ IF IsSome(ActivePane.vfs)
       THEN status' = "Mkdir in archive not supported" /\ modal' = modal
       ELSE /\ modal' = Some([kind |-> "Prompt", value |-> N_new_folder,
                              cursor |-> Len(N_new_folder),
                              action |-> [kind |-> "Mkdir", base |-> ActivePane.cwd]])
            /\ status' = status
    /\ ev' = Ev("begin_mkdir", TRUE, active, ActivePane)
    /\ UNCHANGED <<fs, panes, active, viewer, last_click, flags, quick_search, faults>>

\* Ctrl+F8: begin_sync_dirs, from the active pane's directory to the other's
KeySync ==
    /\ PaneKeys
    /\ IF IsSome(left.vfs) \/ IsSome(right.vfs)
       THEN status' = "Sync in archive not supported" /\ modal' = modal
       ELSE \E ops \in {sync_plan(fs, ActivePane.cwd, InactivePane.cwd)} :
               IF ops = <<>>
               THEN status' = "Directories already in sync" /\ modal' = modal
               ELSE /\ modal' = Some([kind |-> "Confirm",
                                      action |-> [kind |-> "Sync", ops |-> ops,
                                                  src_root |-> ActivePane.cwd,
                                                  dst_root |-> InactivePane.cwd]])
                    /\ status' = status
    /\ ev' = Ev("begin_sync_dirs", TRUE, active, ActivePane)
    /\ UNCHANGED <<fs, panes, active, viewer, last_click, flags, quick_search, faults>>

\* Keep refreshes whose failures are dropped: of the active pane, of the
\* inactive pane, or of the active and then the inactive pane
Reread(pane, F) == refresh(F, pane, "Keep", show_hidden, TRUE).pane
Rereads(which) ==
    CASE which = "active" -> {active}
      [] which = "inactive" -> {Other(active)}
      [] OTHER -> {"Left", "Right"}
RereadPanes(F, which) ==
    /\ left' = IF "Left" \in Rereads(which) THEN Reread(left, F) ELSE left
    /\ right' = IF "Right" \in Rereads(which) THEN Reread(right, F) ELSE right

\* execute_confirm: the Delete, Sync and Overwrite arms
execute_confirm(action) ==
    IF action.kind = "Delete"
    THEN \E r \in {DeleteLoop(fs, action.sources)} :
            /\ fs' = r.fs
            /\ IF r.ok THEN status' = "Deleted" /\ RereadPanes(r.fs, "active")
               ELSE status' = "Delete failed" /\ UNCHANGED panes
    ELSE IF action.kind = "Sync"
    THEN \E r \in {sync_execute(fs, action.ops, action.src_root, action.dst_root)} :
            /\ fs' = r.fs
            /\ IF r.ok THEN status' = "Synchronized" /\ RereadPanes(r.fs, "both")
               ELSE status' = "Sync failed" /\ UNCHANGED panes
    ELSE \E r \in {IF action.op = "Copy"
                     THEN copy_sources(fs, action.sources, action.dest, TRUE)
                     ELSE move_sources(fs, action.sources, action.dest, TRUE)} :
            /\ fs' = r.fs
            /\ IF r.ok THEN status' = "Operation complete" /\ RereadPanes(r.fs, "both")
               ELSE status' = "Overwrite failed" /\ UNCHANGED panes

\* F11: begin_chmod; the prompt starts with the entry's permission bits
KeyF11 ==
    /\ PaneKeys
    /\ FsDelta(fs) < MaxChanged
    /\ IF IsSome(ActivePane.vfs)
       THEN status' = "Attributes in archive not supported" /\ modal' = modal
       ELSE IF IsNone(selected_entry(ActivePane))
       THEN status' = "No file selected" /\ modal' = modal
       ELSE \E target \in {selected_entry(ActivePane)[1].path} :
            \E mode \in {IF Exists(fs, target) THEN FormatOctal(fs[target].perm % 512)
                          ELSE <<"6", "4", "4">>} :
               /\ modal' = Some([kind |-> "Prompt", value |-> mode, cursor |-> Len(mode),
                                 action |-> [kind |-> "Chmod", target |-> target]])
               /\ status' = status
    /\ ev' = Ev("begin_chmod", TRUE, active, ActivePane)
    /\ UNCHANGED <<fs, panes, active, viewer, last_click, flags, quick_search, faults>>

\* Enter in the Attributes prompt: execute_prompt (Chmod) on the trimmed text
PromptEnterChmod ==
    /\ ModalKeys("Prompt") /\ modal[1].action.kind = "Chmod"
    /\ \E input \in {Trim(modal[1].value)} :
       \E target \in {modal[1].action.target} :
          IF input = <<>> THEN UNCHANGED <<fs, panes, status>>
          ELSE IF ~Exists(fs, target)
          THEN status' = "Chmod failed" /\ UNCHANGED <<fs, panes>>
          ELSE /\ fs' = [fs EXCEPT ![target].perm = chmod_bits(input)]
               /\ status' = "Chmod"
               /\ RereadPanes(fs', "active")
    /\ modal' = NoneV
    /\ ev' = [Ev("chmod", TRUE, active, ActivePane) EXCEPT !.key = "Enter"]
    /\ UNCHANGED <<active, viewer, last_click, flags, quick_search, faults>>

\* the DeleteDialog keys with Cancel and Escape running the deletion too
delete_dialog_eager(m, key) ==
    [modal |-> NoneV, run |-> key \in {"Enter", "Escape"}, status |-> NoneV]

\* the DeleteDialog arm of handle_modal_key: [modal, run, status]; run is
\* whether execute_confirm(Delete) is called
delete_dialog_key(m, key) ==
    LET keep == [modal |-> Some(m), run |-> FALSE, status |-> NoneV]
        close == [modal |-> NoneV, run |-> FALSE, status |-> NoneV]
        toggled == [keep EXCEPT !.modal = Some([m EXCEPT !.use_filters = ~m.use_filters])]
    IN CASE key = "Escape" -> close
         [] key = "Tab" -> [keep EXCEPT !.modal = Some([m EXCEPT !.focus = (m.focus + 1) % 4])]
         [] key = "BackTab" ->
                [keep EXCEPT !.modal =
                    Some([m EXCEPT !.focus = IF m.focus = 0 THEN 3 ELSE m.focus - 1])]
         [] key = "Space" -> (IF m.focus = 0 THEN toggled ELSE keep)
         [] key = "Enter" ->
                (CASE m.focus = 0 -> toggled
                   [] m.focus = 1 -> [close EXCEPT !.run = TRUE]
                   [] m.focus = 2 -> [keep EXCEPT !.status = Some("Filters not implemented")]
                   [] m.focus = 3 -> close
                   [] OTHER -> keep)
         [] OTHER -> keep

DeleteKeys == {"Escape", "Tab", "BackTab", "Space", "Enter", "y", "n"}

\* a key while the DeleteDialog is open
DeleteDialogKey ==
    /\ ModalKeys("DeleteDialog")
    /\ \E key \in DeleteKeys :
          \E r \in {delete_dialog_key(modal[1], key)} :
             /\ modal' = r.modal
             /\ IF r.run
                THEN execute_confirm([kind |-> "Delete", sources |-> modal[1].sources])
                ELSE /\ status' = UnwrapOr(r.status, status)
                     /\ UNCHANGED <<fs, panes>>
             /\ ev' = [Ev("DeleteDialog", TRUE, active, ActivePane) EXCEPT !.key = key]
    /\ UNCHANGED <<active, viewer, last_click, flags, quick_search, faults>>

\* the Confirm arm of handle_modal_key
ConfirmKey ==
    /\ ModalKeys("Confirm")
    /\ \E key \in {"y", "Enter", "n", "Escape", "Tab"} :
          /\ IF key \in {"y", "Enter"}
             THEN modal' = NoneV /\ execute_confirm(modal[1].action)
             ELSE /\ modal' = IF key \in {"n", "Escape"} THEN NoneV ELSE modal
                  /\ UNCHANGED <<fs, panes, status>>
          /\ ev' = [Ev("Confirm", TRUE, active, ActivePane) EXCEPT !.key = key]
    /\ UNCHANGED <<active, viewer, last_click, flags, quick_search, faults>>

FocusOrder ==
    <<"Input", "IncludeSubdirs", "CopyNewerOnly", "UseFilters", "CheckTargetSpace",
      "BtnCopy", "BtnTree", "BtnFilters", "BtnCancel">>
\* Tab that never reaches the buttons
FocusNextBoxes(f) ==
    CASE f = "Input" -> "IncludeSubdirs"
      [] f = "IncludeSubdirs" -> "CopyNewerOnly"
      [] f = "CopyNewerOnly" -> "UseFilters"
      [] f = "UseFilters" -> "CheckTargetSpace"
      [] OTHER -> "Input"
\* the match of the Tab key
FocusNext(f) ==
    CASE f = "Input" -> "IncludeSubdirs"
      [] f = "IncludeSubdirs" -> "CopyNewerOnly"
      [] f = "CopyNewerOnly" -> "UseFilters"
      [] f = "UseFilters" -> "CheckTargetSpace"
      [] f = "CheckTargetSpace" -> "BtnCopy"
      [] f = "BtnCopy" -> "BtnTree"
      [] f = "BtnTree" -> "BtnFilters"
      [] f = "BtnFilters" -> "BtnCancel"
      [] f = "BtnCancel" -> "Input"
\* the match of the BackTab key
FocusPrev(f) ==
    CASE f = "Input" -> "BtnCancel"
      [] f = "IncludeSubdirs" -> "Input"
      [] f = "CopyNewerOnly" -> "IncludeSubdirs"
      [] f = "UseFilters" -> "CopyNewerOnly"
      [] f = "CheckTargetSpace" -> "UseFilters"
      [] f = "BtnCopy" -> "CheckTargetSpace"
      [] f = "BtnTree" -> "BtnCopy"
      [] f = "BtnFilters" -> "BtnTree"
      [] f = "BtnCancel" -> "BtnFilters"
Checkboxes == {"IncludeSubdirs", "CopyNewerOnly", "UseFilters", "CheckTargetSpace"}

\* the checkbox under the focus flipped
ToggleBox(m) ==
    CASE m.focus = "IncludeSubdirs" -> [m EXCEPT !.include_subdirs = ~@]
      [] m.focus = "CopyNewerOnly" -> [m EXCEPT !.copy_newer_only = ~@]
      [] m.focus = "UseFilters" -> [m EXCEPT !.use_filters = ~@]
      [] m.focus = "CheckTargetSpace" -> [m EXCEPT !.check_target_space = ~@]
      [] OTHER -> m

\* handle_copy_move_dialog_key: [modal, commit, status]; commit is whether the
\* copy or move is to be executed (Enter on Input or on the action button).
\* Enter on a checkbox flips it in a dialog that handle_key already took out
\* of App.modal and that is then not put back
transfer_dialog_key(m, key, ch) ==
    LET keep == [modal |-> Some(m), commit |-> FALSE, status |-> NoneV]
        close == [modal |-> NoneV, commit |-> FALSE, status |-> NoneV]
        With(m2) == [keep EXCEPT !.modal = Some(m2)]
        input == m.focus = "Input"
    IN CASE key = "Escape" -> close
         [] key = "Tab" -> With([m EXCEPT !.focus = FocusNext(m.focus)])
         [] key = "BackTab" -> With([m EXCEPT !.focus = FocusPrev(m.focus)])
         [] key = "Space" ->
                (IF input
                 THEN With([m EXCEPT !.dest = InsertCh(m.dest, m.cursor, " "),
                                     !.cursor = m.cursor + 1])
                 ELSE With(ToggleBox(m)))
         [] key = "Enter" ->
                (CASE m.focus \in {"Input", "BtnCopy"} -> [close EXCEPT !.commit = TRUE]
                   [] m.focus \in Checkboxes -> close
                   [] m.focus = "BtnTree" ->
                          [keep EXCEPT !.status = Some("Tree browser not implemented")]
                   [] m.focus = "BtnFilters" ->
                          [keep EXCEPT !.status = Some("Filters not implemented")]
                   [] OTHER -> close)
         [] key = "Left" /\ input ->
                With([m EXCEPT !.cursor = IF m.cursor > 0 THEN m.cursor - 1 ELSE m.cursor])
         [] key = "Right" /\ input ->
                With([m EXCEPT !.cursor = IF m.cursor < Len(m.dest) THEN m.cursor + 1
                                          ELSE m.cursor])
         [] key = "Backspace" /\ input ->
                (IF m.cursor > 0
                 THEN With([m EXCEPT !.dest = RemoveCh(m.dest, m.cursor - 1),
                                     !.cursor = m.cursor - 1])
                 ELSE keep)
         [] key = "Delete" /\ input ->
                (IF m.cursor < Len(m.dest)
                 THEN With([m EXCEPT !.dest = RemoveCh(m.dest, m.cursor)])
                 ELSE keep)
         [] key = "Char" /\ input ->
                With([m EXCEPT !.dest = InsertCh(m.dest, m.cursor, ch),
                               !.cursor = m.cursor + 1])
         [] key = "Home" /\ input -> With([m EXCEPT !.cursor = 0])
         [] key = "End" /\ input -> With([m EXCEPT !.cursor = Len(m.dest)])
         [] OTHER -> keep

\* the keys pressed in the Copy and Move dialogs, and the character a Char
\* key carries
DialogKeys == {"Escape", "Tab", "Enter"}
DestChars == {"z"}

\* a key while the Copy or Move dialog is open; on a commit the conflicts are
\* counted first and, if there are any, a Confirm takes the dialog's place
TransferDialogKey ==
    /\ \E kind \in {"CopyDialog", "MoveDialog"} :
          /\ ModalKeys(kind)
          /\ \E key \in DialogKeys : \E ch \in DestChars :
                \E m \in {modal[1]} :
                \E r \in {transfer_dialog_key(m, key, ch)} :
                \E dest \in {PathFromStr(m.dest)} :
                \E conflicts \in {find_conflicts(fs, m.sources, dest)} :
                \E done \in {IF kind = "CopyDialog"
                              THEN copy_sources(fs, m.sources, dest, FALSE)
                              ELSE move_sources(fs, m.sources, dest, FALSE)} :
                   /\ ev' = [Ev(kind, TRUE, active, ActivePane) EXCEPT !.key = key]
                   /\ IF ~r.commit
                      THEN /\ modal' = r.modal
                           /\ status' = UnwrapOr(r.status, status)
                           /\ UNCHANGED <<fs, panes>>
                      ELSE IF IsSome(conflicts)
                      THEN /\ modal' = Some([kind |-> "Confirm",
                                             action |-> [kind |-> "Overwrite",
                                                         op |-> IF kind = "CopyDialog"
                                                                THEN "Copy" ELSE "Move",
                                                         sources |-> m.sources,
                                                         dest |-> dest]])
                           /\ UNCHANGED <<fs, panes, status>>
                      ELSE /\ modal' = NoneV
                           /\ fs' = done.fs
                           /\ IF ~done.ok
                              THEN /\ status' = IF kind = "CopyDialog" THEN "Copy failed"
                                                ELSE "Move failed"
                                   /\ UNCHANGED panes
                              ELSE IF kind = "CopyDialog"
                              THEN status' = "Copy complete" /\ RereadPanes(done.fs, "inactive")
                              ELSE status' = "Move complete" /\ RereadPanes(done.fs, "both")
    /\ UNCHANGED <<active, viewer, last_click, flags, quick_search, faults>>

\* the keys of the Copy and the Move dialog that edit the text, move the
\* focus backwards or flip a checkbox; the text is kept an absolute path of
\* at most MaxDestLen characters
MaxDestLen == 2
EditKeys ==
    {"BackTab", "Space", "Left", "Right", "Backspace", "Delete", "Char", "Home", "End"}
TransferDialogEdit ==
    /\ \E kind \in {"CopyDialog", "MoveDialog"} :
          /\ ModalKeys(kind)
          /\ \E key \in EditKeys : \E ch \in DestChars :
                \E r \in {transfer_dialog_key(modal[1], key, ch)} :
                   /\ Len(r.modal[1].dest) <= MaxDestLen
                   /\ IsAbs(PathFromStr(r.modal[1].dest))
                   /\ modal' = r.modal
                   /\ status' = UnwrapOr(r.status, status)
                   /\ ev' = [Ev(kind, TRUE, active, ActivePane) EXCEPT !.key = key]
    /\ UNCHANGED <<fs, panes, active, viewer, last_click, flags, quick_search, faults>>

\* Navigation and marking on the active pane while listings may fail
Next == KeyMove \/ KeyLeft \/ KeyEnter \/ KeySelect \/ ViewerClose \/ KeyF3

Spec == Init /\ [][Next]_vars

\* Every writer of the cursor, on the active pane, while another process
\* deletes files; no system call fails by itself
InitQuiet == InitApp /\ faults = MaxFaults

NextQuiet ==
    \/ KeyMove \/ KeyLeft \/ KeyEnter \/ ViewerClose
    \/ KeyF4 \/ KeyChar \/ KeyBackspace \/ KeyEscape
    \/ MouseScroll \/ (\E p \in {active} : MouseClick(p))
    \/ EnvRemove

SpecQuiet == InitQuiet /\ [][NextQuiet]_vars

\* The pull-down menu, find, panelize, tree and drive lists, with navigation
\* on the active pane; no system call fails by itself
NextFind ==
    \/ KeyMove \/ KeyLeft \/ KeyEnter \/ ViewerClose
    \/ KeyF9 \/ PullDownKey \/ PullDownFind \/ PullDownTree \/ OpenDrive
    \/ PromptKey \/ PromptEnterFind
    \/ ListKey \/ FindPanelize \/ FindEnter \/ TreeEnter \/ DriveEnter

SpecFind == InitQuiet /\ [][NextFind]_vars

\* Marking on the active pane across directory, archive and panelized
\* listings, with Reset and Keep refreshes
NextMark ==
    \/ KeyMove \/ KeyLeft \/ KeyEnter \/ KeySelect \/ ViewerClose
    \/ KeyF9 \/ PullDownKey \/ PullDownFind \/ PullDownReread
    \/ PromptKey \/ PromptEnterFind
    \/ ListKey \/ FindPanelize \/ FindEnter

SpecMark == InitQuiet /\ [][NextMark]_vars

\* Copy, move and delete from the active pane through their dialogs
NextOps ==
    \/ KeyMove \/ KeyLeft \/ KeyPlus \/ KeyBegin
    \/ DeleteDialogKey \/ TransferDialogKey \/ ConfirmKey

SpecOps == InitQuiet /\ [][NextOps]_vars

\* Browsing archives: the application started in "/" with /x.zip holding any
\* of the archives, hidden names shown or not; no system call fails by itself
InitZip ==
    /\ \E id \in ZipIds : fs = [InitFS EXCEPT ![Join(Root, N_xzip)].zip = Some(id)]
    /\ show_hidden \in BOOLEAN
    /\ left = refresh(fs, PaneNew(Root), "Reset", show_hidden, TRUE).pane
    /\ right = refresh(fs, PaneNew(Root), "Reset", show_hidden, TRUE).pane
    /\ active = "Left"
    /\ status = "Ready"
    /\ viewer = NoneV
    /\ modal = NoneV
    /\ last_click = NoneV
    /\ hide_left = FALSE
    /\ hide_right = FALSE
    /\ hide_all = FALSE /\ cmdline = <<>> /\ cmd_cursor = 0
    /\ quick_search = NoneV
    /\ ev = Ev("new", TRUE, "Left", PaneNew(Root))
    /\ faults = MaxFaults

NextZip == KeyMove \/ KeyLeft \/ KeyEnter \/ ViewerClose

SpecZip == InitZip /\ [][NextZip]_vars

\* Sorting: the root holds any of four entries (a directory, two files whose
\* names differ in case only, a file with an extension); the orders are set
\* through the menus and the panel options
N_P == <<"P">>
N_p == <<"p">>
N_az == <<"a", ".", "z">>
SortNodes ==
    (Join(Root, N_b) :> DirNode(2))
    @@ (Join(Root, N_P) :> FileNode(2, 1))
    @@ (Join(Root, N_p) :> FileNode(1, 3))
    @@ (Join(Root, N_az) :> FileNode(3, 2))
SortTrees ==
    {(Root :> DirNode(1)) @@ [p \in S |-> SortNodes[p]] : S \in SUBSET DOMAIN SortNodes}

InitSort ==
    /\ fs \in SortTrees
    /\ left = refresh(fs, PaneNew(Root), "Reset", FALSE, TRUE).pane
    /\ right = refresh(fs, PaneNew(Root), "Reset", FALSE, TRUE).pane
    /\ active = "Left" /\ status = "Ready" /\ viewer = NoneV /\ modal = NoneV
    /\ last_click = NoneV /\ show_hidden = FALSE
    /\ hide_left = FALSE /\ hide_right = FALSE /\ hide_all = FALSE /\ cmdline = <<>> /\ cmd_cursor = 0
    /\ quick_search = NoneV /\ ev = Ev("new", TRUE, "Left", PaneNew(Root))
    /\ faults = MaxFaults

NextSort ==
    \/ KeyF9 \/ PullDownKey \/ PullDownSort
    \/ PullDownPanelOptions \/ PanelOptionsKey \/ PanelOptionsEnter

SpecSort == InitSort /\ [][NextSort]_vars

\* Copy and move: the dialog is open on one of the lists of sources a pane or
\* a panelized list can hold and on one of the destinations a user can type
N_n == <<"n">>
N_m == <<"m">>
XferSources ==
    {<<Join(StartDir, N_f)>>, <<Join(StartDir, N_b)>>, <<Join(Root, N_f)>>,
     <<Join(StartDir, N_b), Join(StartDir, N_f)>>,
     <<Join(StartDir, N_f), Join(Root, N_f)>>,
     <<Join(StartDir, N_YZIP), Join(StartDir, N_f)>>}
XferDests ==
    {PathToStr(d) : d \in {Root, StartDir, Join(StartDir, N_b), Join(Root, N_f),
                           Join(StartDir, N_f), Join(Root, N_n),
                           Join(Join(Root, N_n), N_m), Join(Join(StartDir, N_b), N_f)}}
XferDialog(kind, sources, dest) ==
    [kind |-> kind, sources |-> sources,
     source_name |-> IF Len(sources) = 1 THEN FileName(sources[1])
                     ELSE CountFiles(Len(sources)),
     dest |-> dest, cursor |-> Len(dest),
     include_subdirs |-> FALSE, copy_newer_only |-> FALSE,
     use_filters |-> FALSE, check_target_space |-> FALSE, focus |-> "Input"]

InitXfer ==
    /\ fs = InitFS
    /\ left = refresh(InitFS, PaneNew(StartDir), "Reset", FALSE, TRUE).pane
    /\ right = refresh(InitFS, PaneNew(StartDir), "Reset", FALSE, TRUE).pane
    /\ active = "Left" /\ status = "Ready" /\ viewer = NoneV
    /\ last_click = NoneV /\ show_hidden = FALSE
    /\ hide_left = FALSE /\ hide_right = FALSE /\ hide_all = FALSE /\ cmdline = <<>> /\ cmd_cursor = 0
    /\ quick_search = NoneV
    /\ \E kind \in {"CopyDialog", "MoveDialog"} :
          \E sources \in XferSources : \E dest \in XferDests :
             /\ modal = Some(XferDialog(kind, sources, dest))
             /\ ev = Ev(IF kind = "CopyDialog" THEN "begin_copy" ELSE "begin_move",
                        TRUE, "Left", left)
    /\ faults = MaxFaults

NextXfer == TransferDialogKey \/ ConfirmKey

SpecXfer == InitXfer /\ [][NextXfer]_vars

\* The Copy and the Move dialog under all their keys, opened on one file with
\* the destination /f
InitDialog ==
    /\ fs = InitFS
    /\ left = refresh(InitFS, PaneNew(StartDir), "Reset", FALSE, TRUE).pane
    /\ right = refresh(InitFS, PaneNew(StartDir), "Reset", FALSE, TRUE).pane
    /\ active = "Left" /\ status = "Ready" /\ viewer = NoneV
    /\ last_click = NoneV /\ show_hidden = FALSE
    /\ hide_left = FALSE /\ hide_right = FALSE /\ hide_all = FALSE /\ cmdline = <<>> /\ cmd_cursor = 0
    /\ quick_search = NoneV
    /\ \E kind \in {"CopyDialog", "MoveDialog"} :
          \E sources \in {<<Join(StartDir, N_f)>>} :
             /\ modal = Some(XferDialog(kind, sources, PathToStr(Join(Root, N_f))))
             /\ ev = Ev(IF kind = "CopyDialog" THEN "begin_copy" ELSE "begin_move",
                        TRUE, "Left", left)
    /\ faults = MaxFaults

NextDialog == TransferDialogKey \/ TransferDialogEdit \/ ConfirmKey

SpecDialog == InitDialog /\ [][NextDialog]_vars

\* Every modal there is, opened from the panes and driven by its keys; no
\* system call fails by itself
NextModal ==
    \/ KeyF1 \/ KeyF2 \/ KeyF9 \/ KeyBegin \/ OpenDrive
    \/ PullDownKey \/ PullDownInfo \/ PullDownFind \/ PullDownTree \/ PullDownPanelOptions
    \/ HelpKey \/ AboutKey \/ ConfigKey \/ ConfigEnter \/ UserMenuKey
    \/ PanelOptionsKey
    \/ PromptKey \/ PromptEnterFind \/ ListKey
    \/ DeleteDialogKey \/ TransferDialogKey \/ ConfirmKey

\* the left pane was brought to / or stayed in /a, its cursor on any row
InitModal ==
    /\ fs = InitFS
    /\ \E cwd \in {Root, StartDir} :
          \E listed \in {refresh(InitFS, PaneNew(cwd), "Reset", FALSE, TRUE).pane} :
          \E row \in 0..(Len(listed.entries) - 1) :
             /\ left = move_selection(listed, row, MaxViewHeight)
             /\ ev = Ev("move_selection", TRUE, "Left", listed)
    /\ right = refresh(InitFS, PaneNew(StartDir), "Reset", FALSE, TRUE).pane
    /\ active = "Left" /\ status = "Ready" /\ viewer = NoneV /\ modal = NoneV
    /\ last_click = NoneV /\ show_hidden = FALSE
    /\ hide_left = FALSE /\ hide_right = FALSE /\ hide_all = FALSE /\ cmdline = <<>> /\ cmd_cursor = 0
    /\ quick_search = NoneV
    /\ faults = MaxFaults

SpecModal == InitModal /\ [][NextModal]_vars

\* The list modals over lists longer than their windows: the application
\* started in / with the file /f and ListDirs directories mounted under /mnt,
\* all of them found by the query "f"; the results are panelized and entered
ListDirs == 9
Digit(i) == <<"0", "1", "2", "3", "4", "5", "6", "7", "8", "9">>[i + 1]
ListFS ==
    (Root :> DirNode(1))
    @@ (Join(Root, N_f) :> FileNode(1, 1))
    @@ (Join(Root, N_mnt) :> DirNode(1))
    @@ [p \in {Join(Join(Root, N_mnt), <<"f", Digit(i)>>) : i \in 0..(ListDirs - 1)}
           |-> DirNode(1)]

InitList ==
    /\ fs = ListFS
    /\ left = refresh(ListFS, PaneNew(Root), "Reset", FALSE, TRUE).pane
    /\ right = refresh(ListFS, PaneNew(Root), "Reset", FALSE, TRUE).pane
    /\ active = "Left" /\ status = "Ready" /\ viewer = NoneV /\ modal = NoneV
    /\ last_click = NoneV /\ show_hidden = FALSE
    /\ hide_left = FALSE /\ hide_right = FALSE /\ hide_all = FALSE /\ cmdline = <<>> /\ cmd_cursor = 0
    /\ quick_search = NoneV /\ ev = Ev("new", TRUE, "Left", PaneNew(Root))
    /\ faults = MaxFaults

NextList ==
    \/ KeyF2 \/ KeyF9 \/ OpenDrive
    \/ PullDownKey \/ PullDownFind \/ PullDownTree
    \/ PromptKey \/ PromptEnterFind \/ ListKey \/ UserMenuKey
    \/ FindPanelize \/ FindEnter \/ ViewerClose

SpecList == InitList /\ [][NextList]_vars

\* The file operations begun from the left pane in and out of archives; the
\* dialogs they open are left open
NextArchive ==
    \/ KeyMove \/ KeyEnter \/ ViewerClose
    \/ KeyF4 \/ KeyBegin \/ KeyF7 \/ KeyF11 \/ KeySync
    \/ KeyF9 \/ PullDownKey \/ PullDownFind

SpecArchive == InitQuiet /\ [][NextArchive]_vars

\* Synchronizing /a and /b in both directions: /a may hold the directory d
\* with the file d/f and the files f and g, /b may hold d as a directory or
\* as a file, d/f, f and the directory g, with older, equal and newer
\* modification times
N_d == <<"d">>
N_g == <<"g">>
SyncSrc == Join(Root, N_a)
SyncDst == Join(Root, N_b)
Maybe(S) == {NoneV} \cup {Some(x) : x \in S}
Put(p, o) == IF o = NoneV THEN <<>> ELSE (p :> o[1])
SyncPicks ==
    {c \in Maybe({DirNode(1)}) \X Maybe({FileNode(1, 2)})
           \X Maybe({FileNode(1, 1), FileNode(1, 2)}) \X Maybe({FileNode(1, 2)})
           \X Maybe({DirNode(1), FileNode(1, 1)})
           \X Maybe({FileNode(1, 1), FileNode(1, 2), FileNode(1, 3)})
           \X Maybe({FileNode(1, 1), FileNode(1, 2)}) \X Maybe({DirNode(1)}) :
        /\ c[2] # NoneV => c[1] # NoneV
        /\ c[6] # NoneV => c[5] = Some(DirNode(1))}
SyncTrees ==
    {(Root :> DirNode(1)) @@ (SyncSrc :> DirNode(1)) @@ (SyncDst :> DirNode(1))
        @@ Put(Join(SyncSrc, N_d), c[1]) @@ Put(Join(Join(SyncSrc, N_d), N_f), c[2])
        @@ Put(Join(SyncSrc, N_f), c[3]) @@ Put(Join(SyncSrc, N_g), c[4])
        @@ Put(Join(SyncDst, N_d), c[5]) @@ Put(Join(Join(SyncDst, N_d), N_f), c[6])
        @@ Put(Join(SyncDst, N_f), c[7]) @@ Put(Join(SyncDst, N_g), c[8]) : c \in SyncPicks}

InitSync ==
    /\ fs \in SyncTrees
    /\ left = refresh(fs, PaneNew(SyncSrc), "Reset", FALSE, TRUE).pane
    /\ right = refresh(fs, PaneNew(SyncDst), "Reset", FALSE, TRUE).pane
    /\ active = "Left" /\ status = "Ready" /\ viewer = NoneV /\ modal = NoneV
    /\ last_click = NoneV /\ show_hidden = FALSE
    /\ hide_left = FALSE /\ hide_right = FALSE /\ hide_all = FALSE /\ cmdline = <<>> /\ cmd_cursor = 0
    /\ quick_search = NoneV /\ ev = Ev("new", TRUE, "Left", PaneNew(SyncSrc))
    /\ faults = MaxFaults

NextSync == KeyTab \/ KeySync \/ ConfirmKey

SpecSync == InitSync /\ [][NextSync]_vars

\* Batches that fail: everything in /a is marked and a Delete, Copy or Move
\* dialog towards /b is open, or none and the directories are synchronized;
\* another process may remove /a/f before the batch runs
BatchTrees ==
    {F \in SyncTrees : Exists(F, Join(SyncSrc, N_f)) /\ Exists(F, Join(SyncSrc, N_g))}

InitBatch ==
    /\ fs \in BatchTrees
    /\ right = refresh(fs, PaneNew(SyncDst), "Reset", FALSE, TRUE).pane
    /\ \E marked \in {select_all(refresh(fs, PaneNew(SyncSrc), "Reset", FALSE, TRUE).pane)} :
          /\ left = marked
          /\ modal \in {NoneV, begin_delete(marked, "Ready").modal,
                         begin_transfer(marked, right, TRUE, "Ready").modal,
                         begin_transfer(marked, right, FALSE, "Ready").modal}
          /\ ev = Ev("select_all", TRUE, "Left", marked)
    /\ active = "Left" /\ status = "Ready" /\ viewer = NoneV
    /\ last_click = NoneV /\ show_hidden = FALSE
    /\ hide_left = FALSE /\ hide_right = FALSE /\ hide_all = FALSE /\ cmdline = <<>> /\ cmd_cursor = 0
    /\ quick_search = NoneV
    /\ faults = MaxFaults

NextBatch == EnvRemove \/ KeySync \/ DeleteDialogKey \/ TransferDialogKey \/ ConfirmKey

SpecBatch == InitBatch /\ [][NextBatch]_vars

\* The Attributes prompt on any entry of / or /a, edited and committed
NextChmod == KeyF11 \/ PromptKey \/ PromptEnterChmod

SpecChmod == InitModal /\ [][NextChmod]_vars

\* Hiding and showing the panes by key and by menu, and Tab
NextHide == KeyHide \/ KeyTab \/ KeyF9 \/ PullDownKey \/ PullDownOnOff

SpecHide == InitQuiet /\ [][NextHide]_vars

\* The command line and the Find prompt
NextText ==
    \/ KeyCtrlO \/ CmdlineKey
    \/ KeyF9 \/ PullDownKey \/ PullDownFind \/ PromptKey

SpecText == InitQuiet /\ [][NextText]_vars

\* The three layers that capture the input, the viewer, the modals and the
\* command line, with every way into them by key and by mouse; the
\* application is started in / holding a directory and a file
LayersFS ==
    (Root :> DirNode(1)) @@ (Join(Root, N_a) :> DirNode(1))
    @@ (Join(Root, N_f) :> FileNode(1, 1))

InitLayers ==
    /\ fs = LayersFS
    /\ left = refresh(LayersFS, PaneNew(Root), "Reset", FALSE, TRUE).pane
    /\ right = refresh(LayersFS, PaneNew(Root), "Reset", FALSE, TRUE).pane
    /\ active = "Left" /\ status = "Ready" /\ viewer = NoneV /\ modal = NoneV
    /\ last_click = NoneV /\ show_hidden = FALSE
    /\ hide_left = FALSE /\ hide_right = FALSE /\ hide_all = FALSE
    /\ cmdline = <<>> /\ cmd_cursor = 0
    /\ quick_search = NoneV /\ ev = Ev("new", TRUE, "Left", PaneNew(Root))
    /\ faults = MaxFaults

NextLayers ==
    \/ KeyF3 \/ ViewerClose
    \/ KeyCtrlO \/ CmdlineOther
    \/ KeyF9 \/ PullDownKey \/ PullDownView \/ PullDownEdit
    \/ MouseScroll \/ (\E p \in {"Left", "Right"} : MouseClick(p)) \/ MouseTop

SpecLayers == InitLayers /\ [][NextLayers]_vars

\* Navigation, the tree and drive lists and the re-read of the active pane,
\* while a listing may fail
NextFault ==
    \/ KeyLeft \/ KeyEnter
    \/ KeyF9 \/ PullDownKey \/ PullDownTree \/ PullDownReread \/ OpenDrive
    \/ ListKey \/ TreeEnter \/ DriveEnter

SpecFault == Init /\ [][NextFault]_vars

----------------------------------------------------------------------------
(* Pane::move_selection on its own: every pane of up to MaxMoveLen entries,
   every cursor and offset, moved by small, large and extreme deltas *)

MaxMoveLen == 5
MoveDeltas == {-1000, -1, 0, 1, 1000, I32Min, I32Max}
MoveHeights == ViewHeights \cup {10}

MoveEntry(i) ==
    [name |-> [j \in 1..i |-> "f"], path |-> Join(Root, [j \in 1..i |-> "f"]),
     is_dir |-> FALSE, size |-> i, modified |-> Some(1), is_system |-> FALSE]
MovePanes ==
    {[PaneNew(Root) EXCEPT !.entries = [i \in 1..n |-> MoveEntry(i)],
                           !.cursor = c, !.offset = o] :
        n \in 0..MaxMoveLen, c \in {NoneV} \cup {Some(k) : k \in 0..MaxMoveLen},
        o \in 0..MaxMoveLen}
InitMove ==
    /\ InitShell
    /\ faults = MaxFaults
    /\ left \in {p \in MovePanes :
                    /\ p.offset <= Max(Len(p.entries), 1) - 1
                    /\ IsNone(p.cursor) \/ p.cursor[1] < Len(p.entries)
                    /\ p.entries = <<>> => IsNone(p.cursor)}
    /\ ev = [op |-> "new", delta |-> 0, view_height |-> 0, cur |-> NoneV, off |-> 0]

MoveOverflows(pane, delta) ==
    pane.entries # <<>> /\ AddOverflows(UnwrapOr(pane.cursor, 0), delta)

\* move_selection returns: always in a build without overflow checks, and in a
\* build with them when `current as i32 + delta` does not overflow
MoveReturns ==
    /\ ev.op # "panic"
    /\ \E delta \in MoveDeltas : \E vh \in MoveHeights : \E checked \in BOOLEAN :
          /\ ~(checked /\ MoveOverflows(left, delta))
          /\ left' = move_selection(left, delta, vh)
          /\ ev' = [op |-> "move_selection", delta |-> delta, view_height |-> vh,
                    cur |-> left.cursor, off |-> left.offset]
    /\ UNCHANGED <<fs, right, active, status, viewer, modal, last_click, flags,
                   quick_search, faults>>

\* the addition overflows in a build with overflow checks: the thread panics
MovePanics ==
    /\ ev.op # "panic"
    /\ \E delta \in MoveDeltas : \E vh \in MoveHeights :
          /\ MoveOverflows(left, delta)
          /\ ev' = [op |-> "panic", delta |-> delta, view_height |-> vh,
                    cur |-> left.cursor, off |-> left.offset]
    /\ UNCHANGED <<fs, panes, active, status, viewer, modal, last_click, flags,
                   quick_search, faults>>

NextMove == MoveReturns \/ MovePanics

SpecMove == InitMove /\ [][NextMove]_vars

\* clamp(a + b, lo, hi) over the integers, for lo <= a <= hi
ClampSum(a, b, lo, hi) == IF b > hi - a THEN hi ELSE IF b < lo - a THEN lo ELSE a + b

Visible(pane, view_height) ==
    /\ IsSome(pane.cursor)
    /\ pane.offset <= pane.cursor[1]
    /\ pane.cursor[1] < pane.offset + view_height

\* C10, as stated: on a non-empty pane, for every delta and every view_height,
\* move_selection sets the cursor to clamp(current + delta, 0, len - 1) and
\* leaves offset <= cursor < offset + view_height.
C10_MoveSelectionClampsAndScrolls ==
    (ev.op \in {"move_selection", "panic"} /\ left.entries # <<>>)
        => /\ ev.op = "move_selection"
           /\ left.cursor = Some(ClampSum(UnwrapOr(ev.cur, 0), ev.delta, 0, Len(left.entries) - 1))
           /\ Visible(left, ev.view_height)

\* C10, amended: on a non-empty pane a move_selection that returns sets the
\* cursor to clamp(current + delta, 0, len - 1) whenever current + delta fits
\* an i32, and to 0 when the sum wrapped; with view_height >= 1 it leaves
\* offset <= cursor < offset + view_height, and with view_height = 0 it leaves
\* the offset as it was.
C10_MoveSelectionAmended ==
    (ev.op = "move_selection" /\ left.entries # <<>>)
        => LET current == UnwrapOr(ev.cur, 0)
               last == Len(left.entries) - 1
           IN /\ ~AddOverflows(current, ev.delta)
                    => left.cursor = Some(ClampSum(current, ev.delta, 0, last))
              /\ AddOverflows(current, ev.delta) => left.cursor = Some(0)
              /\ ev.view_height >= 1 => Visible(left, ev.view_height)
              /\ ev.view_height = 0 => left.offset = ev.off
C10_Witness ==
    /\ ev.op = "move_selection" /\ ev.delta = 1000 /\ ev.view_height = 10
    /\ Len(left.entries) = 5
    /\ left.cursor = Some(4)
    /\ Visible(left, 10)

----------------------------------------------------------------------------
(* Properties of navigation *)

Panes == {left, right}

\* C1: in every reachable state of a pane, and after a refresh in either mode
\* from its source, selected is a subset of the paths of entries.
C1_SelectedWithinEntries ==
    /\ \A p \in Panes : p.selected \subseteq EntryPaths(p.entries)
    /\ \A p \in Panes : \A mode \in {"Reset", "Keep"} :
          \A q \in {refresh(fs, p, mode, show_hidden, TRUE).pane} :
             q.selected \subseteq EntryPaths(q.entries)
C1_Witness ==
    /\ ev.op = "go_parent" /\ ev.ok /\ ev.marks
    /\ IsSome(ev.from.panelized) /\ IsNone(left.panelized)
    /\ left.entries # <<>> /\ left.selected = {}

\* C2: vfs and panelized are never both Some in a pane.
C2_VfsXorPanelized == \A p \in Panes : ~(IsSome(p.vfs) /\ IsSome(p.panelized))
NavOps == {"go_parent", "enter_selected"}
EvPane == PaneOf(ev.pane)
AtArchiveRoot(loc) == IsSome(loc.vfs) /\ loc.vfs[1].prefix = <<>>

\* C5: go_parent from the root of an archive clears vfs and leaves cwd exactly
\* as it was before the operation.
C5_GoParentFromArchiveRootKeepsCwd ==
    (ev.op = "go_parent" /\ ev.ok /\ AtArchiveRoot(ev.from))
        => (IsNone(EvPane.vfs) /\ EvPane.cwd = ev.from.cwd)

\* C6: after a go_parent or enter_selected that changed the backing source and
\* returned Ok, entries is the listing of the pane's active source.
C6_SourceChangeIsFollowedByRefresh ==
    (ev.op \in NavOps /\ ev.ok /\ Loc(EvPane) # ev.from)
        => \A l \in {Listing(fs, EvPane, show_hidden, TRUE)} :
              l.ok /\ EvPane.entries = l.val

\* C7: when the listing step of a refresh fails, refresh returns the error and
\* entries, selected, the cursor index and the scroll offset are those from
\* before the call; this holds of the refresh every handler ran last and of
\* any refresh of a reachable pane in either mode.
SameListing(p, q) ==
    /\ p.entries = q.entries
    /\ p.selected = q.selected
    /\ p.cursor = q.cursor
    /\ p.offset = q.offset
C7_FailedRefreshLeavesListing ==
    /\ IsSome(ev.before) => SameListing(EvPane, ev.before[1])
    /\ \A p \in Panes : \A mode \in {"Reset", "Keep"} : \A io \in BOOLEAN :
          \A r \in {refresh(fs, p, mode, show_hidden, io)} :
             ~r.ok => SameListing(r.pane, p)
C7_Witness ==
    /\ ev.op = "enter_selected" /\ ~ev.ok
    /\ status = "Open failed"
    /\ left.entries # <<>> /\ left.selected # {}

\* C8: a navigation whose listing fails leaves the pane's location (cwd, vfs,
\* panelized) and its entries as they were before the operation.
C8_FailedNavigationKeepsLocation ==
    (ev.op \in NavOps /\ ~ev.ok)
        => (Loc(EvPane) = ev.from /\ EvPane.entries = ev.before[1].entries)

\* C9: a successful refresh leaves the cursor None with offset 0 on an empty
\* listing, at index 0 with offset 0 in Reset mode, and at min(previous index,
\* len - 1) in Keep mode; in every reachable state the cursor is None or less
\* than the number of entries.
CursorInRange(p) == IsNone(p.cursor) \/ p.cursor[1] < Len(p.entries)
C9_CursorRange ==
    /\ \A p \in Panes : CursorInRange(p)
    /\ \A p \in Panes : \A mode \in {"Reset", "Keep"} :
          \A r \in {refresh(fs, p, mode, show_hidden, TRUE)} : \A q \in {r.pane} :
             r.ok =>
               IF q.entries = <<>> THEN IsNone(q.cursor) /\ q.offset = 0
               ELSE IF mode = "Reset" THEN q.cursor = Some(0) /\ q.offset = 0
               ELSE q.cursor = Some(Min(UnwrapOr(p.cursor, 0), Len(q.entries) - 1))
C9_Witness ==
    /\ ev.op = "open_editor" /\ ev.ok
    /\ ev.cur = Some(2)
    /\ Len(left.entries) = 2
    /\ left.cursor = Some(1)

----------------------------------------------------------------------------
(* Properties of delete, copy and move *)

\* the modal that took the key of this step
ModalIs(kind) == IsSome(modal) /\ modal[1].kind = kind

\* execute_confirm(Delete) ran in this step: only it writes these two messages
DeleteRan == status' \in {"Deleted", "Delete failed"} /\ (status' # status \/ fs' # fs)

\* C3: the deletion of the selected sources (execute_confirm with a Delete
\* action) happens only as the immediate effect of Enter on the Delete button
\* of an open DeleteDialog, or of y or Enter in an open Confirm that carries a
\* Delete action; a key outside any modal (F8 included) and every other key of
\* the DeleteDialog (Escape, Enter on Cancel, ...) leave the tree as it is
C3_NoSilentDelete ==
    [][ /\ DeleteRan =>
              \/ ModalIs("DeleteDialog") /\ modal[1].focus = 1 /\ ev'.key = "Enter"
              \/ /\ ModalIs("Confirm") /\ modal[1].action.kind = "Delete"
                 /\ ev'.key \in {"y", "Enter"}
        /\ IsNone(modal) => fs' = fs
        /\ ModalIs("DeleteDialog") /\ ~(modal[1].focus = 1 /\ ev'.key = "Enter") => fs' = fs
      ]_vars

\* C3 witness: Enter on the Delete button has just removed the file under the
\* cursor
C3_Witness ==
    /\ ev.op = "DeleteDialog" /\ ev.key = "Enter" /\ status = "Deleted"
    /\ ~Exists(fs, Join(StartDir, N_f))

\* a target of the sources exists, as the handler finds it on a commit
TargetExists(F, sources, dest) ==
    \E i \in 1..Len(sources) :
        Exists(F, TargetOf(sources[i], dest, IsDir(F, dest) \/ Len(sources) > 1))

\* this step commits the open Copy or Move dialog
Commits ==
    /\ ModalIs("CopyDialog") \/ ModalIs("MoveDialog")
    /\ modal[1].focus \in {"Input", "BtnCopy"}
    /\ ev'.key = "Enter"

\* the Confirm that has to take the place of the committed dialog
OverwriteConfirm(m) ==
    [kind |-> "Confirm",
     action |-> [kind |-> "Overwrite",
                 op |-> IF m.kind = "CopyDialog" THEN "Copy" ELSE "Move",
                 sources |-> m.sources, dest |-> PathFromStr(m.dest)]]

\* what the overwrite does to the tree
Overwritten(F, action) ==
    IF action.op = "Copy" THEN copy_sources(F, action.sources, action.dest, TRUE).fs
    ELSE move_sources(F, action.sources, action.dest, TRUE).fs

\* C4: committing the Copy or Move dialog while a target exists changes
\* nothing in the tree and puts a Confirm with the Overwrite action of the same
\* kind, sources and destination in the dialog's place; from that Confirm the
\* overwrite runs on y or Enter and on no other key, and n or Escape close it
\* with the tree untouched
C4_TwoStepOverwrite ==
    [][ /\ Commits /\ TargetExists(fs, modal[1].sources, PathFromStr(modal[1].dest)) =>
              fs' = fs /\ modal' = Some(OverwriteConfirm(modal[1]))
        /\ ModalIs("Confirm") /\ modal[1].action.kind = "Overwrite" =>
              /\ ev'.key \in {"y", "Enter"} =>
                    fs' = Overwritten(fs, modal[1].action) /\ modal' = NoneV
              /\ ev'.key \notin {"y", "Enter"} => fs' = fs
              /\ ev'.key \in {"n", "Escape"} => modal' = NoneV
      ]_vars

\* C4 witness: the answer y to the Confirm has just replaced an existing file
\* by a copy of another one
C4_Witness ==
    /\ ev.op = "Confirm" /\ ev.key = "y" /\ status = "Operation complete"
    /\ Exists(fs, Join(StartDir, N_f))
    /\ fs[Join(StartDir, N_f)].size = InitFS[Join(Root, N_f)].size

----------------------------------------------------------------------------
(* Properties of enter_selected and of the archive prefix *)

\* the highlighted entry is none, or is neither a directory nor a file named
\* *.zip in any letter case, or is such a file while the pane is in an archive
StaysPut(p) ==
    \/ IsNone(selected_entry(p))
    \/ /\ ~selected_entry(p)[1].is_dir
       /\ \/ ~EndsWith(ToLower(selected_entry(p)[1].name), DotZip)
          \/ IsSome(p.vfs)

\* C11: enter_selected returns Ok(true) exactly when it navigated; with no
\* highlighted entry, on an entry that is neither a directory nor a *.zip file
\* (in any letter case), and on a *.zip file inside an archive it returns
\* Ok(false) whatever the system calls would do and leaves the pane as it was;
\* on every other entry an Ok is Ok(true).
C11_EnterSelectedReportsNavigation ==
    \A p \in Panes : \A io \in BOOLEAN :
        \A r \in {enter_selected(fs, p, show_hidden, io)} :
            /\ r.ok => (r.val <=> Loc(r.pane) # Loc(p))
            /\ StaysPut(p) => r = [ok |-> TRUE, val |-> FALSE, pane |-> p]
            /\ ~StaysPut(p) /\ r.ok => r.val
C11_Witness ==
    /\ ev.op = "enter_selected" /\ ev.ok
    /\ Loc(left) = ev.from
    /\ IsSome(left.vfs)
    /\ IsSome(selected_entry(left))
    /\ selected_entry(left)[1].name = N_YZIP

ValidPrefix(prefix) == prefix = <<>> \/ prefix[Len(prefix)] = "/"

\* C12: zip_parent_prefix of the empty prefix is None, and for the prefix p of
\* a pane inside an archive (empty or ending in '/') and every directory entry
\* e the pane lists under p, zip_parent_prefix(zip_child_prefix(p, e.path)) is
\* Some(p).
C12_PrefixRoundTrip ==
    /\ zip_parent_prefix(<<>>) = NoneV
    /\ \A p \in Panes :
          (IsSome(p.vfs) /\ ValidPrefix(p.vfs[1].prefix))
              => \A i \in 1..Len(p.entries) :
                    p.entries[i].is_dir
                        => zip_parent_prefix(zip_child_prefix(p.vfs[1].prefix,
                                                              p.entries[i].path))
                               = Some(p.vfs[1].prefix)

\* the members of the archive a pane is inside of
MembersOf(p) ==
    IF Exists(fs, p.vfs[1].zip_path) /\ IsSome(fs[p.vfs[1].zip_path].zip)
    THEN Archive(fs[p.vfs[1].zip_path].zip[1]) ELSE <<>>

\* the string is empty or ends with exactly one '/'
EndsWithOneSlash(prefix) ==
    \/ prefix = <<>>
    \/ /\ prefix[Len(prefix)] = "/"
       /\ Len(prefix) > 1 => prefix[Len(prefix) - 1] # "/"

\* the entry is what a member whose name starts with the prefix shows as:
\* the first segment of the member's name after the prefix
ComesFromMember(e, members, prefix) ==
    \E j \in 1..Len(members) :
        /\ StartsWith(members[j].name, prefix)
        /\ e.name = SplitSlash(SubSeq(members[j].name, Len(prefix) + 1,
                                      Len(members[j].name)))[1]

\* C13: while a pane is inside an archive, vfs.prefix is empty or ends with
\* exactly one '/', and every entry the pane shows comes from a member of the
\* archive whose name starts with vfs.prefix.
C13_ArchivePrefixInvariant ==
    \A p \in Panes :
        IsSome(p.vfs)
            => /\ EndsWithOneSlash(p.vfs[1].prefix)
               /\ \A i \in 1..Len(p.entries) :
                     ComesFromMember(p.entries[i], MembersOf(p), p.vfs[1].prefix)

----------------------------------------------------------------------------
(* Properties of the archive listing *)

\* what follows the prefix in a member's name, its segments, and whether the
\* listing under the prefix has to show the member's first segment
RestOf(m, prefix) == SubSeq(m.name, Len(prefix) + 1, Len(m.name))
ShowsUnder(m, prefix) ==
    /\ StartsWith(m.name, prefix)
    /\ RestOf(m, prefix) # <<>>
    /\ show_hidden \/ ~StartsWith(SplitSlash(RestOf(m, prefix))[1], <<".">>)
DirSegments(members, prefix) ==
    {SplitSlash(RestOf(members[j], prefix))[1] :
        j \in {k \in 1..Len(members) :
                  /\ ShowsUnder(members[k], prefix)
                  /\ Len(SplitSlash(RestOf(members[k], prefix))) > 1}}
Leaves(members, prefix) ==
    {j \in 1..Len(members) :
        /\ ShowsUnder(members[j], prefix)
        /\ Len(SplitSlash(RestOf(members[j], prefix))) = 1}

\* the listing has one directory entry (size 0, no time) per first segment
\* with further segments and one entry with the stored size per leaf member
ListsSegments(listing, members, prefix) ==
    /\ \A seg \in DirSegments(members, prefix) :
          /\ Cardinality({i \in 1..Len(listing) :
                            listing[i].is_dir /\ listing[i].name = seg}) = 1
          /\ \A i \in 1..Len(listing) :
                (listing[i].is_dir /\ listing[i].name = seg)
                    => listing[i].size = 0 /\ listing[i].modified = NoneV
    /\ \A j \in Leaves(members, prefix) :
          \E i \in 1..Len(listing) :
              /\ ~listing[i].is_dir
              /\ listing[i].name = RestOf(members[j], prefix)
              /\ listing[i].size = members[j].size
    /\ Len(listing) = Cardinality(DirSegments(members, prefix))
                        + Cardinality(Leaves(members, prefix))
NoNameTwice(listing) ==
    \A i \in 1..Len(listing) : \A k \in 1..Len(listing) :
        i # k => listing[i].name # listing[k].name

\* C14: for the archive and prefix of every pane inside an archive,
\* read_zip_entries yields exactly one directory entry (size 0, no time) per
\* distinct first segment that has further segments after the prefix and one
\* entry with the member's stored size per member without a further segment
\* (of the names the hidden filter lets through), and no name twice.
C14_ZipListing ==
    \A p \in Panes :
        IsSome(p.vfs)
            => \A r \in {read_zip_entries(fs, p.vfs[1], show_hidden, TRUE)} :
                  /\ r.ok
                  /\ ListsSegments(r.val, MembersOf(p), p.vfs[1].prefix)
                  /\ NoNameTwice(r.val)

----------------------------------------------------------------------------
(* Properties of the sort orders *)

SortAxes == {"sort_name", "sort_ext", "sort_time", "sort_size"}
OnAxis(op) ==
    CASE op = "sort_name" -> {"NameAsc", "NameDesc"}
      [] op = "sort_ext" -> {"ExtAsc", "ExtDesc"}
      [] op = "sort_time" -> {"TimeAsc", "TimeDesc"}
      [] op = "sort_size" -> {"SizeAsc", "SizeDesc"}
AscOf(op) ==
    CASE op = "sort_name" -> "NameAsc"
      [] op = "sort_ext" -> "ExtAsc"
      [] op = "sort_time" -> "TimeAsc"
      [] op = "sort_size" -> "SizeAsc"

\* C15: a toggle applied to a mode of its own axis gives the other direction
\* of that axis, and applied once more gives the mode it started from
C15_ToggleOwnAxisFlips ==
    \A op \in SortAxes :
        (ev.op = op /\ ev.mode \in OnAxis(op))
            => /\ PaneOf(ev.pane).sort_mode \in OnAxis(op) \ {ev.mode}
               /\ SortTo(op, PaneOf(ev.pane).sort_mode) = ev.mode
C15_Witness ==
    /\ ev.op = "sort_size" /\ ev.pane = "Left" /\ ev.mode = "SizeDesc"
    /\ left.sort_mode = "SizeAsc"

\* C16 as stated: a toggle applied to a mode of another axis, or to Unsorted,
\* gives the ascending mode of its own axis
C16_ToggleOtherAxisAscending ==
    \A op \in SortAxes :
        (ev.op = op /\ ev.mode \notin OnAxis(op))
            => PaneOf(ev.pane).sort_mode = AscOf(op)
\* C16 amended: it gives the one starting mode of its axis, whatever the mode
\* before was: ascending for name and extension, descending for time and size
StartOf(op) ==
    CASE op = "sort_name" -> "NameAsc"
      [] op = "sort_ext" -> "ExtAsc"
      [] op = "sort_time" -> "TimeDesc"
      [] op = "sort_size" -> "SizeDesc"
C16_ToggleOtherAxisStart ==
    \A op \in SortAxes :
        (ev.op = op /\ ev.mode \notin OnAxis(op))
            => PaneOf(ev.pane).sort_mode = StartOf(op)
C16_Witness ==
    /\ ev.op = "sort_time" /\ ev.pane = "Right" /\ ev.mode = "ExtDesc"
    /\ right.sort_mode = "TimeDesc"

\* the entries of a directory in the order fs::read_dir yields them
Enumerated(F, dir, hidden) ==
    Bind(SelectSeq(EnumSeq(Children(F, dir)),
                   LAMBDA q : hidden \/ ~StartsWith(FileName(q), <<".">>)),
         LAMBDA kept : [i \in 1..Len(kept) |-> DirEntry(F, kept[i])])

\* every order in which the system may yield a sequence of entries
Perms(n) == {f \in [1..n -> 1..n] : \A i, j \in 1..n : f[i] = f[j] => i = j}
Reordered(seq, f) == [i \in 1..Len(seq) |-> seq[f[i]]]
Orders(seq) == {Reordered(seq, f) : f \in Perms(Len(seq))}

DirsLead(listing) ==
    \A i, j \in 1..Len(listing) : (listing[i].is_dir /\ ~listing[j].is_dir) => i < j

\* C17: with dirs_first set every directory precedes every file in the
\* listing, in each of the nine modes and for each order of enumeration
C17_DirsFirst ==
    \A p \in Panes : p.dirs_first
        => /\ DirsLead(p.entries)
           /\ \A seq \in Orders(Enumerated(fs, p.cwd, show_hidden)) :
                  DirsLead(SortEntries(<<>>, seq, p.sort_mode, TRUE))
C17_Witness ==
    /\ ev.op = "unsorted" /\ ev.pane = "Left" /\ left.dirs_first
    /\ left.sort_mode = "Unsorted" /\ Len(left.entries) = 4
    /\ Enumerated(fs, Root, show_hidden)[1].name = N_P
    /\ left.entries[1].name = N_b

\* C18 as stated: in Unsorted mode the listing is in the order of
\* enumeration, whatever dirs_first is
C18_UnsortedKeepsEnumeration ==
    \A p \in Panes : p.sort_mode = "Unsorted"
        => p.entries = Enumerated(fs, p.cwd, show_hidden)
\* C18 amended: in Unsorted mode without dirs_first the listing is in the
\* order of enumeration; with dirs_first the directories come first and the
\* files after them, each group in the order of enumeration
DirsThenFiles(seq) ==
    SelectSeq(seq, LAMBDA e : e.is_dir) \o SelectSeq(seq, LAMBDA e : ~e.is_dir)
UnsortedOrder(seq, dirs_first) == IF dirs_first THEN DirsThenFiles(seq) ELSE seq
C18_UnsortedKeepsGroups ==
    \A p \in Panes : p.sort_mode = "Unsorted"
        => /\ p.entries = UnsortedOrder(Enumerated(fs, p.cwd, show_hidden), p.dirs_first)
           /\ \A seq \in Orders(Enumerated(fs, p.cwd, show_hidden)) :
                  SortEntries(<<>>, seq, "Unsorted", p.dirs_first)
                      = UnsortedOrder(seq, p.dirs_first)
C18_Witness ==
    /\ ev.op = "panel_option" /\ left.sort_mode = "Unsorted" /\ ~left.dirs_first
    /\ Len(left.entries) = 4
    /\ left.entries[1].name = N_P /\ left.entries[3].name = N_b

\* C19: in every mode but Unsorted the comparator is never Equal for two
\* different entries of a directory, and the listing is the same for every
\* order of enumeration
C19_ComparatorTotal ==
    \A p \in Panes : p.sort_mode # "Unsorted"
        => /\ \A i, j \in 1..Len(p.entries) :
                  i # j => EntryCmp(p.entries[i], p.entries[j], p.sort_mode,
                                    p.dirs_first) # 0
           /\ \A seq \in Orders(Enumerated(fs, p.cwd, show_hidden)) :
                  SortEntries(<<>>, seq, p.sort_mode, p.dirs_first) = p.entries

----------------------------------------------------------------------------
(* Properties of the targets of copy and move *)

\* the target the rule gives to a source
RuleTarget(F, sources, dest, src) ==
    IF IsDir(F, dest) \/ Len(sources) > 1 THEN Join(dest, FileName(src)) ELSE dest
RuleTargets(F, sources, dest) ==
    {RuleTarget(F, sources, dest, sources[i]) : i \in 1..Len(sources)}
ConflictCount(F, sources, dest) ==
    Cardinality({i \in 1..Len(sources) : Exists(F, RuleTarget(F, sources, dest, sources[i]))})

\* the paths whose node is not the same in the trees F and G
Touched(F, G) ==
    {q \in DOMAIN F \cup DOMAIN G :
        q \notin DOMAIN F \/ q \notin DOMAIN G \/ F[q] # G[q]}
AtOrUnder(tops, q) == \E t \in tops : IsPrefixPath(t, q)
\* a directory made on the way down to a target
MadeAbove(F, G, tops, q) ==
    /\ q \notin DOMAIN F /\ IsDir(G, q)
    /\ \E t \in tops : IsPrefixPath(q, t)

WritesTargets(F, sources, dest, r, moving) ==
    /\ \A q \in Touched(F, r.fs) :
          \/ AtOrUnder(RuleTargets(F, sources, dest), q)
          \/ MadeAbove(F, r.fs, RuleTargets(F, sources, dest), q)
          \/ moving /\ AtOrUnder({sources[i] : i \in 1..Len(sources)}, q)
    /\ r.ok => \A t \in RuleTargets(F, sources, dest) : Exists(r.fs, t)

\* the sources and the destination of the open Copy or Move dialog, or of
\* the Confirm that took its place because find_conflicts returned Some
TransferOpen == IsSome(modal) /\ modal[1].kind \in {"CopyDialog", "MoveDialog"}
OverwriteOpen ==
    IsSome(modal) /\ modal[1].kind = "Confirm" /\ modal[1].action.kind = "Overwrite"
XferArgs ==
    IF TransferOpen
    THEN {[sources |-> modal[1].sources, dest |-> PathFromStr(modal[1].dest)]}
    ELSE IF OverwriteOpen
    THEN {[sources |-> modal[1].action.sources, dest |-> modal[1].action.dest]}
    ELSE {}

\* C20: find_conflicts counts the sources whose target under the rule
\* (inside dest when dest is a directory or there are several sources, dest
\* itself otherwise) exists: Some(n) with n >= 1, None when there is none;
\* copy_sources and move_sources, with and without overwrite, change the tree
\* only at those targets and leave every one of them existing when they
\* succeed
C20_ConflictsAndTargets ==
    \A a \in XferArgs :
        /\ find_conflicts(fs, a.sources, a.dest)
              = (IF ConflictCount(fs, a.sources, a.dest) = 0 THEN NoneV
                 ELSE Some(ConflictCount(fs, a.sources, a.dest)))
        /\ OverwriteOpen => ConflictCount(fs, a.sources, a.dest) >= 1
        /\ \A overwrite \in BOOLEAN :
              /\ WritesTargets(fs, a.sources, a.dest,
                               copy_sources(fs, a.sources, a.dest, overwrite), FALSE)
              /\ WritesTargets(fs, a.sources, a.dest,
                               move_sources(fs, a.sources, a.dest, overwrite), TRUE)
\* C20 witness: Enter in the Copy dialog on two sources and an existing
\* directory that holds a file named as one of them has put the Confirm up
C20_Witness ==
    /\ OverwriteOpen /\ ev.op = "CopyDialog" /\ ev.key = "Enter"
    /\ Len(modal[1].action.sources) = 2 /\ IsDir(fs, modal[1].action.dest)
    /\ find_conflicts(fs, modal[1].action.sources, modal[1].action.dest) = Some(1)

----------------------------------------------------------------------------
(* Properties of the dialogs *)

\* the neighbours of a focus in the cycle of FocusOrder
RingPlace(f) == CHOOSE i \in 1..Len(FocusOrder) : FocusOrder[i] = f
RingNext(f) == FocusOrder[(RingPlace(f) % Len(FocusOrder)) + 1]
RingPrev(f) == FocusOrder[((RingPlace(f) + Len(FocusOrder) - 2) % Len(FocusOrder)) + 1]
RECURSIVE Tabs(_, _)
Tabs(n, f) == IF n = 0 THEN f ELSE Tabs(n - 1, FocusNext(f))

\* C21: in the Copy and the Move dialog Tab moves the focus to the next of
\* the nine elements in their fixed order and BackTab to the one before, both
\* wrapping; BackTab undoes Tab and Tab undoes BackTab, nine Tabs give the
\* focus they started from, and nothing but the focus changes in the dialog
C21_FocusRing ==
    [][ \A key \in {"Tab", "BackTab"} :
          (TransferOpen /\ ev'.op = modal[1].kind /\ ev'.key = key)
              => /\ modal' = Some([modal[1] EXCEPT
                                     !.focus = IF key = "Tab" THEN RingNext(@)
                                               ELSE RingPrev(@)])
                 /\ FocusPrev(FocusNext(modal[1].focus)) = modal[1].focus
                 /\ FocusNext(FocusPrev(modal[1].focus)) = modal[1].focus
                 /\ Tabs(Len(FocusOrder), modal[1].focus) = modal[1].focus
                 /\ \A n \in 1..(Len(FocusOrder) - 1) :
                       Tabs(n, modal[1].focus) # modal[1].focus
      ]_vars
\* C21 witness: BackTab has just wrapped the focus from Input to BtnCancel in
\* a dialog with a checkbox set and the text edited
C21_Witness ==
    /\ TransferOpen /\ ev.op = modal[1].kind /\ ev.key = "BackTab"
    /\ modal[1].focus = "BtnCancel" /\ modal[1].copy_newer_only
    /\ modal[1].dest = <<"/", "z">>

----------------------------------------------------------------------------
(* Properties of the modals *)

\* C22: whatever modal is open and whatever state it is in, a step that is
\* the Escape key leaves no modal and changes nothing else: the filesystem,
\* both panes, the active side, the viewer, the hidden flags, show_hidden,
\* the status line, the quick search and the last click are as before, so
\* the action the modal was about has not run.
C22_EscapeOnlyCloses ==
    [][ (IsSome(modal) /\ ev'.key = "Escape")
        => /\ modal' = NoneV
           /\ UNCHANGED <<fs, panes, active, status, viewer, last_click, flags,
                          quick_search, faults>> ]_vars

\* Escape was pressed on the Confirm of an overwrite: nothing was written
C22_Witness ==
    /\ ev.op = "Confirm" /\ ev.key = "Escape" /\ IsNone(modal) /\ fs = InitFS

\* the list modals: what they select among, and the rows of their windows
ListKinds == {"Tree", "DriveMenu", "FindResults", "UserMenu", "PullDown"}
IsList(mo) == IsSome(mo) /\ mo[1].kind \in ListKinds
SelOf(m) == IF m.kind = "PullDown" THEN m.item_idx ELSE m.selected
LenOf(m) == IF m.kind = "PullDown" THEN Len(menu_items(m.menu_idx)) ELSE Len(m.items)
WindowOf(m) == IF m.kind \in {"Tree", "DriveMenu"} THEN 8 ELSE 6
Dist(a, b) == IF a > b THEN a - b ELSE b - a

\* C23: in the Tree, DriveMenu, FindResults, UserMenu and PullDown modals the
\* selection is always within [0, len-1] (0 when the list is empty) and an Up
\* or Down key moves it by at most 1; in the four scrolling modals
\* scroll <= selected < scroll + view_height always holds (8 rows for Tree
\* and DriveMenu, 6 for FindResults and UserMenu), and an Up or Down key
\* leaves the scroll offset alone when the new selection is inside the window
\* and otherwise moves it just far enough: to the selection above the window,
\* to selected - view_height + 1 below it.
C23_ListSelection ==
    [][ /\ IsList(modal') =>
              \E m \in {modal'[1]} :
                 /\ SelOf(m) >= 0
                 /\ SelOf(m) <= (IF LenOf(m) = 0 THEN 0 ELSE LenOf(m) - 1)
                 /\ m.kind # "PullDown" =>
                        m.scroll <= m.selected /\ m.selected < m.scroll + WindowOf(m)
        /\ (IsList(modal) /\ IsList(modal') /\ ev'.key \in {"Up", "Down"}) =>
              \E m \in {modal[1]} : \E n \in {modal'[1]} :
                 /\ n.kind = m.kind
                 /\ Dist(SelOf(n), SelOf(m)) <= 1
                 /\ SelOf(n) = IF ev'.key = "Up" THEN SatSub(SelOf(m), 1)
                                ELSE IF SelOf(m) + 1 < LenOf(m) THEN SelOf(m) + 1
                                ELSE SelOf(m)
                 /\ m.kind # "PullDown" =>
                        /\ n.items = m.items
                        /\ n.scroll = IF n.selected < m.scroll THEN n.selected
                                      ELSE IF n.selected >= m.scroll + WindowOf(m)
                                      THEN n.selected - WindowOf(m) + 1
                                      ELSE m.scroll ]_vars

\* the Tree list was scrolled down and the selection is at the window's foot
C23_Witness ==
    /\ IsSome(modal) /\ modal[1].kind = "Tree" /\ ev.key = "Down"
    /\ modal[1].scroll = 2 /\ modal[1].selected = 9

\* the item Enter takes in a Tree or DriveMenu modal, a directory that exists
ChosenPath(m) ==
    IF m.kind = "Tree" THEN m.items[m.selected + 1].path ELSE m.items[m.selected + 1]
\* a pane in Directory mode on path, listed
ShowsDirectory(F, pane, path, hidden) ==
    /\ pane.cwd = path
    /\ pane.vfs = NoneV /\ pane.panelized = NoneV
    /\ pane.entries = read_entries(F, path, pane.sort_mode, pane.dirs_first, hidden, TRUE).val
EnterNavigates(kinds) ==
    \A k \in kinds :
       (ModalKeys(k) /\ modal[1].selected < Len(modal[1].items)
           /\ IsDir(fs, ChosenPath(modal[1]))
           /\ ev'.op = (IF k = "Tree" THEN "tree_enter" ELSE "drive_enter"))
       => /\ modal' = NoneV
          /\ ShowsDirectory(fs, IF modal[1].pane = "Left" THEN left' ELSE right',
                            ChosenPath(modal[1]), show_hidden)

\* C24: Enter on an item of the Tree or the DriveMenu modal closes the modal
\* and leaves the modal's pane in Directory mode on the chosen path, showing
\* that directory's listing, whether the pane was in Directory, Archive or
\* PanelizedResults mode before.
C24_TreeDriveEnterNavigates == [][EnterNavigates({"Tree", "DriveMenu"})]_vars

\* the same of the DriveMenu alone
C24_DriveEnterNavigates == [][EnterNavigates({"DriveMenu"})]_vars

\* C25: Enter on an item of the FindResults modal closes the modal; on a file
\* it opens the viewer on that file and changes no pane; on a directory it
\* makes that directory the active pane's cwd and the pane's entries that
\* directory's listing, also when the pane was showing panelized results.
C25_FindEnterOpens ==
    [][ (ModalKeys("FindResults") /\ modal[1].selected < Len(modal[1].items)
            /\ ev'.op = "find_enter")
        => \E path \in {modal[1].items[modal[1].selected + 1]} :
              /\ modal' = NoneV
              /\ IF IsDir(fs, path)
                 THEN \E pane \in {IF active = "Left" THEN left' ELSE right'} :
                         /\ pane.cwd = path
                         /\ pane.entries = read_entries(fs, path, pane.sort_mode,
                                                        pane.dirs_first, show_hidden, TRUE).val
                 ELSE /\ viewer' = Some([path |-> path, scroll |-> 0])
                      /\ UNCHANGED panes ]_vars

\* the same where the active pane shows no panelized results
C25_FindEnterFromDirectory ==
    [][ (ModalKeys("FindResults") /\ modal[1].selected < Len(modal[1].items)
            /\ IsNone(ActivePane.panelized) /\ ev'.op = "find_enter")
        => \E path \in {modal[1].items[modal[1].selected + 1]} :
              /\ modal' = NoneV
              /\ IF IsDir(fs, path)
                 THEN \E pane \in {IF active = "Left" THEN left' ELSE right'} :
                         /\ pane.cwd = path
                         /\ pane.entries = read_entries(fs, path, pane.sort_mode,
                                                        pane.dirs_first, show_hidden, TRUE).val
                 ELSE /\ viewer' = Some([path |-> path, scroll |-> 0])
                      /\ UNCHANGED panes ]_vars

----------------------------------------------------------------------------
(* Properties of the file operations *)

\* the events of copy, move, delete, mkdir, find, chmod, sync and edit
BeginOps == {"F5", "F6", "F8", "begin_mkdir", "begin_find", "begin_chmod",
             "begin_sync_dirs", "open_editor"}
\* the status lines open_editor writes after it has run the editor
EditorStatus == {"Editor closed", "Editor failed"}
RefusedInArchive(ops) ==
    (IsSome(ActivePane.vfs) /\ ev'.op \in ops)
    => /\ modal' = NoneV
       /\ status' \notin EditorStatus
       /\ UNCHANGED <<fs, panes, active, viewer, last_click, flags, quick_search>>

\* C26: while the active pane is inside an archive, copy, move, mkdir,
\* delete, find, chmod, sync and edit open no dialog, run no editor and
\* change neither the filesystem nor the panes: only the status line differs
\* after them.
C26_ArchiveReadOnly == [][RefusedInArchive(BeginOps)]_vars

\* the same of all of them but edit
C26_ArchiveRefusesAllButEdit == [][RefusedInArchive(BeginOps \ {"open_editor"})]_vars

\* begin_sync_dirs has just planned: the plan, its source and its destination
Planned == ev.op = "begin_sync_dirs" /\ IsNone(ev.from.vfs) /\ IsNone(InactivePane.vfs)
PlanOps == IF IsSome(modal) THEN modal[1].action.ops ELSE <<>>
PlanSrc == ActivePane.cwd
PlanDst == InactivePane.cwd
InPlan(p) == \E i \in 1..Len(PlanOps) : PlanOps[i] = p
Under(dir, p) == Len(p) > Len(dir) /\ IsPrefixPath(dir, p)
PlanTarget(p) == PlanDst \o SubSeq(p, Len(PlanSrc) + 1, Len(p))

\* C27: sync_plan queues a source directory only when its destination path
\* is absent, and then queues nothing that lies under that directory.
C27_QueuedDirectories ==
    Planned =>
       \A i \in 1..Len(PlanOps) :
          IsDir(fs, PlanOps[i]) =>
             /\ ~Exists(fs, PlanTarget(PlanOps[i]))
             /\ \A j \in 1..Len(PlanOps) : ~Under(PlanOps[i], PlanOps[j])

\* the first half alone: a directory is queued exactly when its destination
\* path is absent
C27_QueuedWhenAbsent ==
    Planned =>
       \A p \in Descendants(fs, PlanSrc) :
          IsDir(fs, p) => (InPlan(p) <=> ~Exists(fs, PlanTarget(p)))

DeleteBatch(sources) == [kind |-> "Delete", sources |-> sources]
TransferBatch(kind, sources, dest, overwrite) ==
    [kind |-> kind, sources |-> sources, dest |-> dest, overwrite |-> overwrite,
     into |-> IsDir(fs, dest) \/ Len(sources) > 1]
SyncBatch(a) ==
    [kind |-> "Sync", sources |-> a.ops, src_root |-> a.src_root, dst_root |-> a.dst_root]
BatchRun ==
    IF ModalIs("DeleteDialog") /\ ev'.op = "DeleteDialog"
          /\ ev'.key = "Enter" /\ modal[1].focus = 1
    THEN {DeleteBatch(modal[1].sources)}
    ELSE IF ModalIs("Confirm") /\ ev'.op = "Confirm" /\ ev'.key \in {"y", "Enter"}
    THEN {CASE modal[1].action.kind = "Delete" -> DeleteBatch(modal[1].action.sources)
            [] modal[1].action.kind = "Sync" -> SyncBatch(modal[1].action)
            [] OTHER -> TransferBatch(modal[1].action.op, modal[1].action.sources,
                                      modal[1].action.dest, TRUE)}
    ELSE IF Commits /\ IsNone(find_conflicts(fs, modal[1].sources, PathFromStr(modal[1].dest)))
    THEN {TransferBatch(IF ModalIs("CopyDialog") THEN "Copy" ELSE "Move",
                        modal[1].sources, PathFromStr(modal[1].dest), FALSE)}
    ELSE {}

\* what processing the one source src of the batch b does to the tree F
BatchTarget(b, src) ==
    IF b.kind = "Sync" THEN b.dst_root \o SubSeq(src, Len(b.src_root) + 1, Len(src))
    ELSE IF b.into THEN Join(b.dest, FileName(src)) ELSE b.dest
Processed(F, b, src) ==
    IF b.kind = "Delete" THEN remove_path(F, src)
    ELSE IF b.kind = "Sync" THEN copy_entry(F, src, BatchTarget(b, src))
    ELSE Bind(IF b.overwrite /\ Exists(F, BatchTarget(b, src))
              THEN remove_path(F, BatchTarget(b, src)) ELSE FsOk(F),
              LAMBDA cleared :
                  IF ~cleared.ok THEN cleared
                  ELSE IF b.kind = "Copy" THEN copy_entry(cleared.fs, src, BatchTarget(b, src))
                  ELSE move_entry(cleared.fs, src, BatchTarget(b, src)))

\* the tree after the first n sources of b were processed one after the other
RECURSIVE AfterFirst(_, _, _)
AfterFirst(F, b, n) ==
    IF n = 0 THEN F ELSE Processed(AfterFirst(F, b, n - 1), b, b.sources[n]).fs
\* the first source of b that fails when they are processed in order, 0 if none
FailsAt(F, b) ==
    IF \E n \in 1..Len(b.sources) : ~Processed(AfterFirst(F, b, n - 1), b, b.sources[n]).ok
    THEN CHOOSE n \in 1..Len(b.sources) :
            /\ ~Processed(AfterFirst(F, b, n - 1), b, b.sources[n]).ok
            /\ \A k \in 1..(n - 1) : Processed(AfterFirst(F, b, k - 1), b, b.sources[k]).ok
    ELSE 0

DoneStatus(b) ==
    CASE b.kind = "Delete" -> "Deleted" [] b.kind = "Sync" -> "Synchronized"
      [] b.overwrite -> "Operation complete"
      [] b.kind = "Copy" -> "Copy complete" [] OTHER -> "Move complete"
FailedStatus(b) ==
    CASE b.kind = "Delete" -> "Delete failed" [] b.kind = "Sync" -> "Sync failed"
      [] b.overwrite -> "Overwrite failed"
      [] b.kind = "Copy" -> "Copy failed" [] OTHER -> "Move failed"
DoneStatuses ==
    {"Deleted", "Synchronized", "Operation complete", "Copy complete", "Move complete"}

WellFormedOctal(t) == t # <<>> /\ \A i \in 1..Len(t) : t[i] \in {"0", "1", "2", "3", "4", "5", "6", "7"}
RECURSIVE OctalNumber(_)
OctalNumber(t) ==
    IF t = <<>> THEN 0
    ELSE 8 * OctalNumber(SubSeq(t, 1, Len(t) - 1))
           + (CHOOSE v \in 0..7 : OctDigits[v + 1] = t[Len(t)])
\* the Attributes prompt is committed with a text on an entry that exists
ChmodCommitted ==
    /\ ModalIs("Prompt") /\ modal[1].action.kind = "Chmod" /\ ev'.op = "chmod"
    /\ Trim(modal[1].value) # <<>> /\ Exists(fs, modal[1].action.target)
ChmodApplies(inputs) ==
    (ChmodCommitted /\ Trim(modal[1].value) \in inputs)
    => /\ status' = "Chmod" /\ modal' = NoneV
       /\ fs'[modal[1].action.target].perm =
             IF WellFormedOctal(Trim(modal[1].value))
             THEN OctalNumber(Trim(modal[1].value)) % 512 ELSE 420
ChmodTexts == UNION {[1..n -> ChmodChars \cup {"4", "5", "6"}] : n \in 1..(MaxChmodLen + 1)}

\* C30: committing the Attributes prompt sets the permission bits to
\* n & 0o777 when the text is a well-formed octal number n, "0" and "000"
\* included, and to 0o644 exactly when it is not; the commit does not fail
\* on a malformed text.
C30_ChmodParsesOctal == [][ChmodApplies(ChmodTexts)]_vars

\* the same of the texts that are not a zero and have no + sign in front or
\* behind leading zeros
SignedText(t) == \E n \in 0..(Len(t) - 1) : t[n + 1] = "+" /\ \A i \in 1..n : t[i] = "0"
C30_ChmodParsesNonZero ==
    [][ChmodApplies({t \in ChmodTexts :
                        ~SignedText(t) /\ ~(WellFormedOctal(t) /\ OctalNumber(t) = 0)})]_vars

\* ---------------------------------------------------------------------------
\* Properties of the error reports
\* ---------------------------------------------------------------------------

\* the events that list a pane, and the two messages handle_key has for a
\* listing that failed
ListingOps == {"go_parent", "enter_selected", "tree_enter", "drive_enter", "reread"}
ListingFailures == {"Up failed", "Open failed"}
ListingReported(ops) ==
    (ev'.op \in ops /\ ~ev'.ok) => status' \in ListingFailures

\* C31: every key event whose listing of a pane fails (navigation, Tree and
\* DriveMenu Enter, re-read) sets the status message to a report of that failure
C31_ListingFailureReported == [][ListingReported(ListingOps)]_vars

\* the same of go_parent and enter_selected alone
C31_NavigationFailureReported == [][ListingReported({"go_parent", "enter_selected"})]_vars

\* ---------------------------------------------------------------------------
\* Properties of copy and move without a confirmation
\* ---------------------------------------------------------------------------

\* the tree after the first n sources of a copy or move without overwrite
DoneFirst(F, sources, dest, moving, n) ==
    TransferLoop(F, SubSeq(sources, 1, n), dest,
                 IsDir(F, dest) \/ Len(sources) > 1, FALSE, moving).fs

\* no source is written onto a file that is at its target when its turn comes
KeepsTargets(F, sources, dest, moving) ==
    \A i \in 1..Len(sources) :
        \A t \in {RuleTarget(F, sources, dest, sources[i])} :
        \A before \in {DoneFirst(F, sources, dest, moving, i - 1)} :
        \A after \in {DoneFirst(F, sources, dest, moving, i)} :
            (Exists(before, t) /\ ~IsDir(before, t))
                => (Exists(after, t) /\ after[t] = before[t])

\* Enter in the Copy or Move dialog ran the operation without a Confirm
RanUnconfirmed ==
    /\ TransferOpen /\ ev'.key = "Enter" /\ ev'.op \in {"CopyDialog", "MoveDialog"}
    /\ modal' = NoneV /\ status' \in {"Copy complete", "Move complete"}

DistinctNames(sources) ==
    \A i, j \in 1..Len(sources) : FileName(sources[i]) = FileName(sources[j]) => i = j

\* C32: a Copy or Move that runs without an Overwrite confirmation replaces
\* no file that is at a target path when that target is written, a target
\* made earlier in the same batch included
C32_NoSilentReplace ==
    [][RanUnconfirmed =>
          /\ fs' = DoneFirst(fs, modal[1].sources, PathFromStr(modal[1].dest),
                             modal[1].kind = "MoveDialog", Len(modal[1].sources))
          /\ KeepsTargets(fs, modal[1].sources, PathFromStr(modal[1].dest),
                          modal[1].kind = "MoveDialog")]_vars

\* the same of the batches whose sources have pairwise different file names
C32_NoSilentReplaceDistinct ==
    [][(RanUnconfirmed /\ DistinctNames(modal[1].sources)) =>
          /\ fs' = DoneFirst(fs, modal[1].sources, PathFromStr(modal[1].dest),
                             modal[1].kind = "MoveDialog", Len(modal[1].sources))
          /\ KeepsTargets(fs, modal[1].sources, PathFromStr(modal[1].dest),
                          modal[1].kind = "MoveDialog")]_vars

\* this step runs a copy: Enter in the Copy dialog, or y or Enter in the
\* Confirm of an overwriting copy
CopyRuns ==
    \/ /\ TransferOpen /\ modal[1].kind = "CopyDialog"
       /\ ev'.op = "CopyDialog" /\ ev'.key = "Enter"
    \/ /\ OverwriteOpen /\ modal[1].action.op = "Copy"
       /\ ev'.op = "Confirm" /\ ev'.key \in {"y", "Enter"}
CopySources == IF TransferOpen THEN modal[1].sources ELSE modal[1].action.sources
CopyDest == IF TransferOpen THEN PathFromStr(modal[1].dest) ELSE modal[1].action.dest
SourcesKept ==
    \A i \in 1..Len(CopySources) :
        Exists(fs, CopySources[i])
            => (Exists(fs', CopySources[i]) /\ fs'[CopySources[i]] = fs[CopySources[i]])
\* a target of the copy is one of its sources or a directory above one
TargetOnSource ==
    \E i, j \in 1..Len(CopySources) :
        IsPrefixPath(RuleTarget(fs, CopySources, CopyDest, CopySources[i]), CopySources[j])

\* C33: a Copy, confirmed overwrite or not, leaves every one of its sources
\* in place and as it was, also when the destination is the source itself
C33_CopyKeepsSources == [][CopyRuns => SourcesKept]_vars

\* the same of the copies none of whose targets is a source or above one
C33_CopyElsewhereKeepsSources == [][(CopyRuns /\ ~TargetOnSource) => SourcesKept]_vars

\* ---------------------------------------------------------------------------
\* Properties of the checkboxes of the Copy and Move dialogs
\* ---------------------------------------------------------------------------

\* this step is the given key in a Copy or Move dialog focused on a checkbox
BoxKey(key) ==
    /\ TransferOpen /\ modal[1].focus \in Checkboxes
    /\ ev'.op \in {"CopyDialog", "MoveDialog"} /\ ev'.key = key

\* C34: Enter on one of the four checkboxes of the Copy or Move dialog flips
\* that checkbox and leaves the dialog open with the flipped value; no copy
\* or move starts
C34_EnterTogglesCheckbox ==
    [][BoxKey("Enter") =>
          modal' = Some(ToggleBox(modal[1])) /\ UNCHANGED <<fs, panes, status>>]_vars

\* Space on a checkbox does so, and Enter on a checkbox starts no copy or move
C34_SpaceTogglesCheckbox ==
    [][ /\ BoxKey("Space") =>
              /\ modal' = Some(ToggleBox(modal[1])) /\ modal' # modal
              /\ UNCHANGED <<fs, panes, status>>
        /\ BoxKey("Enter") => UNCHANGED <<fs, panes, status>> ]_vars

\* ---------------------------------------------------------------------------
\* Properties of the focus and of the input layers
\* ---------------------------------------------------------------------------

\* C35: whenever exactly one pane is hidden, the active pane is the visible one
C35_FocusOnVisiblePane ==
    (hide_left # hide_right) => active = (IF hide_left THEN "Right" ELSE "Left")

\* an event that hides the active pane moves the focus to the other pane,
\* and Tab never moves the focus onto a hidden pane
C35_HideAndTabSteps ==
    [][ /\ (ev'.op = "hide" /\ ev'.pane = active /\ ~Hidden(active))
              => active' = Other(active)
        /\ (ev'.op = "tab" /\ active' # active) => ~Hidden(active') ]_vars

\* C36: the modal and the viewer are never both open, neither is open while
\* the command line (hide_all) is on, and a mouse event does something only
\* when none of the three is active
C36_OneInputLayer ==
    [][ /\ ~(IsSome(modal') /\ IsSome(viewer'))
        /\ hide_all' => (IsNone(modal') /\ IsNone(viewer'))
        /\ ev'.key \in {"Click", "Wheel"}
              => (IsNone(viewer) /\ IsNone(modal) /\ ~hide_all) ]_vars
\* C36 witness: Enter on View in the menu has closed the menu and opened the
\* viewer
C36_Witness ==
    /\ ev.op = "open_viewer" /\ ev.key = "Enter"
    /\ IsSome(viewer) /\ IsNone(modal) /\ ~hide_all

\* ---------------------------------------------------------------------------
\* Properties of the text inputs
\* ---------------------------------------------------------------------------

\* the text inputs of the state: the command line, and the Prompt value or
\* the Copy/Move destination when such a modal is open
TextInputs ==
    {[text |-> cmdline, cursor |-> cmd_cursor]}
    \cup (IF IsSome(modal) /\ modal[1].kind = "Prompt"
          THEN {[text |-> modal[1].value, cursor |-> modal[1].cursor]} ELSE {})
    \cup (IF TransferOpen
          THEN {[text |-> modal[1].dest, cursor |-> modal[1].cursor]} ELSE {})

\* C37: in every text input the cursor is between 0 and the byte length of
\* the text and on a character boundary, and no insertion or removal panics
C37_CursorOnCharBoundary ==
    /\ \A t \in TextInputs :
          /\ 0 <= t.cursor /\ t.cursor <= Len(t.text)
          /\ is_char_boundary(t.text, t.cursor)
    /\ ev.op # "panic"

\* the cursor is between 0 and the byte length of the text
C37_CursorWithinText ==
    \A t \in TextInputs : 0 <= t.cursor /\ t.cursor <= Len(t.text)

\* ---------------------------------------------------------------------------
\* Properties of the scroll offset and of the marks
\* ---------------------------------------------------------------------------

\* the scroll offset of a pane with entries is at most its cursor index
OffsetBelowCursor(p) ==
    (p.entries # <<>> /\ IsSome(p.cursor)) => p.offset <= p.cursor[1]
RefreshSteps(ops) ==
    (ev'.op \in ops /\ OffsetBelowCursor(left) /\ OffsetBelowCursor(right))
        => (OffsetBelowCursor(left') /\ OffsetBelowCursor(right'))

\* C38: in a pane whose entries are not empty the scroll offset is at most the
\* cursor index: every refresh, Reset or Keep, also one after the listing
\* shrank, and every cursor movement with a positive view height keeps it so
C38_OffsetAtMostCursor ==
    [][RefreshSteps({"go_parent", "enter_selected", "open_editor"})]_vars

\* the refreshes in Reset mode keep it so
C38_ResetKeepsOffset == [][RefreshSteps({"go_parent", "enter_selected"})]_vars

\* move_selection with a positive view height leaves the offset at most the
\* cursor index, whatever the offset was
C38_MoveRestoresOffset ==
    [][(ev'.op = "move_selection" /\ ev'.view_height > 0 /\ left.entries # <<>>)
          => (IsSome(left'.cursor) /\ left'.offset <= left'.cursor[1])]_vars

\* enter_selected or go_parent returned Ok, the pane lists another source and
\* its listing has been read again
Relocated(p, q) ==
    ev'.op \in NavOps /\ ev'.ok /\ Loc(q) # Loc(p) /\ q.entries # p.entries
Plain(p) == IsNone(p.vfs) /\ IsNone(p.panelized)

\* C39: after enter_selected or go_parent has changed what the pane lists
\* (directory, archive prefix, into or out of an archive, out of panelized
\* results) no entry is marked
C39_MarksClearedOnNavigation ==
    [][ /\ Relocated(left, left') => left'.selected = {}
        /\ Relocated(right, right') => right'.selected = {} ]_vars

\* the same from one directory to another, outside archives and panelized
\* results
C39_MarksClearedBetweenDirectories ==
    [][ /\ (Relocated(left, left') /\ Plain(left) /\ Plain(left'))
              => left'.selected = {}
        /\ (Relocated(right, right') /\ Plain(right) /\ Plain(right'))
              => right'.selected = {} ]_vars

\* ---------------------------------------------------------------------------
\* Properties of the double click

\* the last event was a click on an entry of a pane and this step is the next
\* click, on the same pane, no more than DOUBLE_CLICK_MS later
SecondClick ==
    /\ ev.op = "mouse_click" /\ ev.hit /\ IsSome(last_click)
    /\ ev'.op = "mouse_click" /\ ev'.pane = ev.pane /\ ev'.quick

\* the second click ran enter_selected on the entry, and the viewer is open
\* (or has reported that it cannot read the file) when that did not change
\* the directory
EnterRan ==
    /\ last_click' = NoneV
    /\ \/ Loc(PaneOf(ev.pane))' # Loc(PaneOf(ev.pane))
       \/ IsSome(viewer')
       \/ ~ev'.ok
       \/ status' = "View failed"

\* the click selected the entry under it and nothing else
OnlyMovesCursor ==
    /\ ev'.hit => /\ IsSome(last_click')
                  /\ ev'.cur = Some(last_click'[1].row)
    /\ IsNone(viewer')
    /\ fs' = fs

\* C40: two consecutive clicks on the same row of the same pane within
\* DOUBLE_CLICK_MS run enter_selected on that entry, at every scroll offset
C40_DoubleClickEnters ==
    [][ (SecondClick /\ ev'.row = ev.row) => EnterRan ]_vars

\* C40: a first click, and a second click on another row, only move the cursor
C40_OtherClickMovesCursor ==
    [][ /\ (ev'.op = "mouse_click" /\ IsNone(last_click)) => OnlyMovesCursor
        /\ (SecondClick /\ ev'.row # ev.row) => OnlyMovesCursor ]_vars

\* both halves of C40 while the table shows the listing from its first entry
C40_DoubleClickAtTop ==
    [][ (IF ev.pane = "Left" THEN left.offset = 0 ELSE right.offset = 0)
           => /\ (SecondClick /\ ev'.row = ev.row) => EnterRan
              /\ (SecondClick /\ ev'.row # ev.row) => OnlyMovesCursor ]_vars
====
